---- MODULE Spec2Model ----
(***************************************************************************)
(* A model of the firewall configuration converter: the intermediate       *)
(* representation (FirewallConfig), the pre-migration analyzer, the        *)
(* Fortinet and Palo Alto generators and the four vendor parsers.          *)
(*                                                                         *)
(* Python exceptions that leave an operation are modelled by the operation *)
(* ending with status "raised".  The iteration order of a Python set is    *)
(* unspecified: where the code iterates a set, the model picks any order.  *)
(***************************************************************************)
EXTENDS Integers, Sequences, FiniteSets, TLC

VARIABLES
    config,     \* the FirewallConfig (IR) the operations work on
    pc,         \* position of the caller: which operation ran last
    status,     \* how the last operation ended: "none", "returned", "raised"
    report,     \* the AnalysisReport of the last analyze()
    history,    \* one record per finished generate(): its input, IR after, text
    input,      \* the text handed to a parser, as a sequence of lines/rows
    options,    \* the generator options of the request (NAT mode, target layout)
    warnings    \* conversion warnings accumulated by the last operation

vars == <<config, pc, status, report, history, input, options, warnings>>

\* ------------------------------------------------------------------ bounds

\* Longest rule list of an IR handed to the analyzer.
MaxRules == 2

\* ------------------------------------------------------------ common values

\* Python's None, for an absent optional field.
None == "<None>"

\* str.lower() on the strings that occur in the model.
Lower(s) ==
    CASE s = "ANY" -> "any"
      [] s = "Any" -> "any"
      [] s = "ALL" -> "all"
      [] s = "A" -> "a"
      [] s = "TCP" -> "tcp"
      [] s = "UDP" -> "udp"
      [] s = "WWW.EXAMPLE.COM" -> "www.example.com"
      [] s = "EQ" -> "eq"
      [] s = "WWW" -> "www"
      [] s = "HTTP" -> "http"
      [] s = "HTTPS" -> "https"
      [] s = "PING" -> "ping"
      [] s = "Accept" -> "accept"
      [] s = "Drop" -> "drop"
      [] OTHER -> s

\* {str(x).lower() for x in S}
LowerSet(S) == {Lower(x) : x \in S}

\* A FirewallConfig with every container empty (models.py defaults).
EmptyConfig ==
    [rules |-> <<>>, nat_rules |-> <<>>, addresses |-> {}, services |-> {},
     service_groups |-> {}, address_groups |-> {}, interfaces |-> {}]

\* A Rule: the fields of models.Rule that the modelled code reads.
MkRule(seq, name, action, src, dst, svc) ==
    [sequence_id |-> seq, name |-> name, action |-> action,
     remark |-> None, enabled |-> TRUE, log |-> FALSE, hit_count |-> 0,
     time_range |-> None,
     source_interface |-> {}, destination_interface |-> {},
     source |-> src, destination |-> dst, service |-> svc, application |-> {}]

\* ---------------------------------------------------------------- analyzer

\* _is_subset_or_any without its empty-set branch: a plain subset test once
\* any/all on the broader side is ruled out.
IsSubsetOrAnyPlain(specific, broader) ==
    LET broader_lower == LowerSet(broader)
        specific_lower == LowerSet(specific)
    IN  IF "any" \in broader_lower \/ "all" \in broader_lower THEN TRUE
        ELSE specific_lower \subseteq broader_lower

\* PreMigrationAnalyzer._is_subset_or_any
IsSubsetOrAny(specific, broader) ==
    LET broader_lower == LowerSet(broader)
        specific_lower == LowerSet(specific)
    IN  IF "any" \in broader_lower \/ "all" \in broader_lower THEN TRUE
        ELSE IF specific_lower = {} THEN FALSE
        ELSE specific_lower \subseteq broader_lower

\* PreMigrationAnalyzer._is_shadowing
IsShadowing(broader_rule, specific_rule) ==
    IF broader_rule.action # specific_rule.action THEN FALSE
    ELSE IF ~IsSubsetOrAny(specific_rule.source, broader_rule.source) THEN FALSE
    ELSE IF ~IsSubsetOrAny(specific_rule.destination, broader_rule.destination)
         THEN FALSE
    ELSE IF ~IsSubsetOrAny(specific_rule.service, broader_rule.service) THEN FALSE
    ELSE TRUE

\* The two nested loops of _find_overlapping_rules, from position (i, j) on.
RECURSIVE OverlapsFrom(_, _, _)
OverlapsFrom(rules, i, j) ==
    IF i > Len(rules) THEN <<>>
    ELSE IF j > Len(rules) THEN OverlapsFrom(rules, i + 1, 1)
    ELSE IF i >= j THEN OverlapsFrom(rules, i, j + 1)
    ELSE IF IsShadowing(rules[i], rules[j])
         THEN <<[rule_name |-> rules[j].name, rule_id |-> j,
                 shadowed_by |-> rules[i].name, shadowed_by_id |-> i]>>
              \o OverlapsFrom(rules, i, j + 1)
    ELSE OverlapsFrom(rules, i, j + 1)

\* PreMigrationAnalyzer._find_overlapping_rules
FindOverlappingRules(cfg) == OverlapsFrom(cfg.rules, 1, 1)

\* action_lower in ['allow', 'permit', 'accept'], '' for an absent action
IsAllowAction(rule) ==
    LET action_lower == IF rule.action = None THEN "" ELSE Lower(rule.action)
    IN  action_lower \in {"allow", "permit", "accept"}

\* "not X or 'any' in X_lower or 'all' in X_lower" of _is_any_any_any
IsAnySet(S) == S = {} \/ "any" \in LowerSet(S) \/ "all" \in LowerSet(S)

\* _is_any_any_any with an empty set not counted as any.
IsAnyAnyAnyNonEmpty(rule) ==
    IF ~IsAllowAction(rule) THEN FALSE
    ELSE /\ "any" \in LowerSet(rule.source) \/ "all" \in LowerSet(rule.source)
         /\ "any" \in LowerSet(rule.destination)
            \/ "all" \in LowerSet(rule.destination)
         /\ "any" \in LowerSet(rule.service) \/ "all" \in LowerSet(rule.service)

\* PreMigrationAnalyzer._is_any_any_any
IsAnyAnyAny(rule) ==
    IF ~IsAllowAction(rule) THEN FALSE
    ELSE IsAnySet(rule.source) /\ IsAnySet(rule.destination)
         /\ IsAnySet(rule.service)

\* One SecurityRisk.
Risk(sev, cat, rule) == [severity |-> sev, category |-> cat, item_name |-> rule.name]

\* The five loops of _find_security_risks, each over the rule list in order.
RECURSIVE RiskLoop(_, _, _)
RiskLoop(rules, k, loop) ==
    IF k > Len(rules) THEN <<>>
    ELSE LET rule == rules[k]
             hit ==
                CASE loop = 1 -> IsAnyAnyAny(rule)
                  [] loop = 2 -> ~rule.enabled
                  [] loop = 3 -> IsAllowAction(rule) /\ ~rule.log
                  [] loop = 4 -> IsAllowAction(rule)
                                 /\ ("any" \in LowerSet(rule.service)
                                     \/ "all" \in LowerSet(rule.service))
                  [] OTHER -> rule.remark = None \/ rule.remark = ""
             risk ==
                CASE loop = 1 -> Risk("critical", "any-any-any", rule)
                  [] loop = 2 -> Risk("low", "disabled-rule", rule)
                  [] loop = 3 -> Risk("medium", "no-logging", rule)
                  [] loop = 4 -> Risk("high", "any-service", rule)
                  [] OTHER -> Risk("low", "no-description", rule)
         IN  (IF hit THEN <<risk>> ELSE <<>>) \o RiskLoop(rules, k + 1, loop)

\* PreMigrationAnalyzer._find_security_risks
FindSecurityRisks(cfg) ==
    RiskLoop(cfg.rules, 1, 1) \o RiskLoop(cfg.rules, 1, 2)
    \o RiskLoop(cfg.rules, 1, 3) \o RiskLoop(cfg.rules, 1, 4)
    \o RiskLoop(cfg.rules, 1, 5)

\* PreMigrationAnalyzer._get_address_key raises AttributeError: None.lower()
AddressKeyRaises(addr) == addr.type = "fqdn" /\ addr.value1 = None

\* PreMigrationAnalyzer._get_address_key, the key as the tuple of its parts
GetAddressKey(addr) ==
    CASE addr.type = "host" -> <<"host", addr.value1, "">>
      [] addr.type = "network" -> <<"network", addr.value1, addr.value2>>
      [] addr.type = "range" -> <<"range", addr.value1, addr.value2>>
      [] addr.type = "fqdn" -> <<"fqdn", Lower(addr.value1), "">>
      [] OTHER -> <<"unknown", addr.value1, "">>

\* PreMigrationAnalyzer._get_service_key, the key as the pair of its parts;
\* the port is the sequence of its words, empty for an absent or empty port
GetServiceKey(svc) ==
    <<IF svc.protocol = None \/ svc.protocol = "" THEN "tcp" ELSE Lower(svc.protocol),
      IF svc.port = <<>> THEN <<"any">> ELSE svc.port>>

\* PreMigrationAnalyzer._find_duplicate_objects: one entry per key that more
\* than one object has (which object is named the original depends on the
\* set's iteration order, so an entry keeps the names as a set).
FindDuplicateObjects(cfg) ==
    {[type |-> "address", value |-> k,
      names |-> {a.name : a \in {b \in cfg.addresses : GetAddressKey(b) = k}}] :
        k \in {GetAddressKey(a) : a \in {b \in cfg.addresses :
                 Cardinality({c \in cfg.addresses :
                     GetAddressKey(c) = GetAddressKey(b)}) > 1}}}
    \cup
    {[type |-> "service", value |-> k,
      names |-> {s.name : s \in {t \in cfg.services : GetServiceKey(t) = k}}] :
        k \in {GetServiceKey(s) : s \in {t \in cfg.services :
                 Cardinality({u \in cfg.services :
                     GetServiceKey(u) = GetServiceKey(t)}) > 1}}}

\* PreMigrationAnalyzer._find_unused_objects: the names of the zero-hit rules
FindUnusedObjects(cfg) ==
    LET has_hit_data == \E k \in DOMAIN cfg.rules : cfg.rules[k].hit_count > 0
    IN  IF has_hit_data
        THEN SelectSeq(cfg.rules, LAMBDA r : r.enabled /\ r.hit_count = 0)
        ELSE <<>>

\* 100 - deductions, not brought back into the range 0..100
Unclamped(deductions) == 100 - deductions

\* max(0, min(100, 100 - deductions))
Clamp(deductions) ==
    IF 100 - deductions < 0 THEN 0
    ELSE IF 100 - deductions > 100 THEN 100 ELSE 100 - deductions

\* the severity weights of _calculate_scores
RECURSIVE SecurityDeductions(_)
SecurityDeductions(risks) ==
    IF risks = <<>> THEN 0
    ELSE (CASE Head(risks).severity = "critical" -> 20
            [] Head(risks).severity = "high" -> 10
            [] Head(risks).severity = "medium" -> 5
            [] OTHER -> 2) + SecurityDeductions(Tail(risks))

\* PreMigrationAnalyzer._calculate_scores; int() of the non-negative weighted
\* sum 0.25*o + 0.50*s + 0.25*c truncates, i.e. (o + 2s + c) div 4
CalculateScores(cfg, duplicates, overlaps, risks, unused) ==
    LET optimization_score == Clamp(Cardinality(duplicates) * 5 + Len(unused) * 2)
        security_score == Clamp(SecurityDeductions(risks))
        total_rules == Len(cfg.rules)
        complexity_score ==
            Clamp(Len(overlaps) * 10
                  + (IF total_rules > 500 THEN 20
                     ELSE IF total_rules > 200 THEN 10 ELSE 0))
    IN  [optimization_score |-> optimization_score,
         security_score |-> security_score,
         complexity_score |-> complexity_score,
         overall_score |->
            (optimization_score + 2 * security_score + complexity_score) \div 4]

\* PreMigrationAnalyzer.analyze: the report it returns
AnalysisReport(cfg) ==
    LET duplicates == FindDuplicateObjects(cfg)
        overlaps == FindOverlappingRules(cfg)
        risks == FindSecurityRisks(cfg)
        unused == FindUnusedObjects(cfg)
        scores == CalculateScores(cfg, duplicates, overlaps, risks, unused)
    IN  [total_objects |-> Cardinality(cfg.addresses) + Cardinality(cfg.services),
         total_rules |-> Len(cfg.rules),
         total_nat_rules |-> Len(cfg.nat_rules),
         duplicate_objects |-> duplicates,
         overlapping_rules |-> overlaps,
         security_risks |-> risks,
         unused_objects |-> unused,
         scores |-> scores]

\* analyze() on the IR: _find_duplicate_objects runs first and raises on an
\* fqdn address without a value; otherwise the report is returned.
Analyze ==
    /\ pc = "parsed"
    /\ pc' = "analyzed"
    /\ IF \E a \in config.addresses : AddressKeyRaises(a)
       THEN /\ status' = "raised"
            /\ report' = report
       ELSE /\ status' = "returned"
            /\ report' = AnalysisReport(config)
    /\ UNCHANGED <<config, history, input, options, warnings>>

\* ---- the IRs handed to the analyzer

SourceChoices == {{}, {"any"}, {"a"}, {"A", "b"}}
DestinationChoices == {{}, {"ANY"}, {"d"}}
ServiceChoices == {{}, {"all"}, {"http"}}
ActionChoices == {"allow", "deny"}

RuleShapes ==
    [action : ActionChoices, source : SourceChoices,
     destination : DestinationChoices, service : ServiceChoices]

RuleNames == <<"r1", "r2", "r3", "r4">>

\* rule lists of length n; the rule at position k has sequence-id k
RuleLists(n) ==
    {[k \in 1..n |-> MkRule(k, RuleNames[k], f[k].action, f[k].source,
                            f[k].destination, f[k].service)] :
        f \in [1..n -> RuleShapes]}

MkAddress(name, type, v1, v2) ==
    [name |-> name, type |-> type, value1 |-> v1, value2 |-> v2]

AddressChoices ==
    {{},
     {MkAddress("h1", "host", "10.0.0.1", None),
      MkAddress("h2", "host", "10.0.0.1", None)},
     {MkAddress("f1", "fqdn", None, None)},
     {MkAddress("f2", "fqdn", "WWW.EXAMPLE.COM", None),
      MkAddress("f3", "fqdn", "www.example.com", None),
      MkAddress("n1", "network", "10.0.0.0", "24")}}

AnalyzerInit ==
    /\ \E n \in 0..MaxRules : \E rules \in RuleLists(n) :
       \E addrs \in AddressChoices :
          config = [EmptyConfig EXCEPT !.rules = rules, !.addresses = addrs]
    /\ pc = "parsed"
    /\ status = "none"
    /\ report = <<>>
    /\ history = <<>>
    /\ input = <<>>
    /\ options = <<>>
    /\ warnings = <<>>

AnalyzerNext == Analyze

SpecAnalyzer == AnalyzerInit /\ [][AnalyzerNext]_vars

\* ---- properties of the analyzer

\* the report lists rule j as shadowed by rule i
ReportedShadow(i, j) ==
    \E k \in DOMAIN report.overlapping_rules :
        /\ report.overlapping_rules[k].rule_id = j
        /\ report.overlapping_rules[k].shadowed_by_id = i

\* specific is a subset of broader in the ordinary sense, a broader set that
\* contains any or all being the universal set
OrdinarySubset(specific, broader) ==
    "any" \in broader \/ "all" \in broader \/ specific \subseteq broader

\* broader contains any/all in any letter case, or specific is non-empty and
\* each of its members, lowercased, is a lowercased member of broader
NonEmptySubsetIgnoringCase(specific, broader) ==
    \/ \E b \in broader : Lower(b) \in {"any", "all"}
    \/ /\ specific # {}
       /\ \A x \in specific : \E b \in broader : Lower(b) = Lower(x)

CriticalRisksFor(name) ==
    {k \in DOMAIN report.security_risks :
        /\ report.security_risks[k].severity = "critical"
        /\ report.security_risks[k].item_name = name}

\* each member is any or all (in any letter case); true of the empty set
WithinAnyAll(S) == \A x \in S : Lower(x) \in {"any", "all"}

\* C5: every allow rule whose source, destination and service are each within
\* {any, all} (the empty set included) has exactly one critical security risk
\* in the report.
C5_OneCriticalPerAnyAnyAny ==
    (pc = "analyzed" /\ status = "returned") =>
        \A k \in DOMAIN config.rules :
            (/\ config.rules[k].action = "allow"
             /\ WithinAnyAll(config.rules[k].source)
             /\ WithinAnyAll(config.rules[k].destination)
             /\ WithinAnyAll(config.rules[k].service))
            => Cardinality(CriticalRisksFor(config.rules[k].name)) = 1

\* A report for an allow rule with an any source, an empty destination and an
\* all service, next to a rule that is not any-any-any.
C5_Witness ==
    /\ pc = "analyzed" /\ status = "returned"
    /\ Len(config.rules) >= 2
    /\ config.rules[2].action = "allow"
    /\ config.rules[2].source = {"any"}
    /\ config.rules[2].destination = {}
    /\ config.rules[2].service = {"all"}
    /\ config.rules[1].source = {"a"}
    /\ Cardinality(CriticalRisksFor("r2")) = 1
    /\ Cardinality(CriticalRisksFor("r1")) = 0
    /\ Len(report.security_risks) > 1

\* C8 as stated: analyze() returns a report with all four scores for every
\* IR, absent address values included; it never raises.
C8_AnalyzeTotal ==
    pc = "analyzed" =>
        /\ status = "returned"
        /\ report.scores.overall_score \in 0..100
        /\ report.scores.optimization_score \in 0..100
        /\ report.scores.security_score \in 0..100
        /\ report.scores.complexity_score \in 0..100

\* Python's round() of x/4: to the nearest integer, a tie to the even one.
RoundQuarters(x) ==
    IF x % 4 < 2 THEN x \div 4
    ELSE IF x % 4 > 2 THEN x \div 4 + 1
    ELSE IF (x \div 4) % 2 = 0 THEN x \div 4 ELSE x \div 4 + 1

\* C11 as stated: the overall score of a returned report equals
\* round(0.25*optimization + 0.50*security + 0.25*complexity) of the three
\* sub-scores the report holds.
C11_OverallIsRoundedAverage ==
    (pc = "analyzed" /\ status = "returned") =>
        report.scores.overall_score =
            RoundQuarters(report.scores.optimization_score
                          + 2 * report.scores.security_score
                          + report.scores.complexity_score)

\* ---- _calculate_scores on its own: the four lists analyze() hands to it

\* Most duplicate entries, unused entries, overlapping pairs and risks of
\* one severity in the lists handed to _calculate_scores.
MaxDuplicates == 20
MaxUnused == 1
MaxOverlaps == 9
MaxCritical == 5

\* n security risks of one severity
RisksOf(sev, n) == [k \in 1..n |-> [severity |-> sev, category |-> "c", item_name |-> "r"]]

\* rule lists of the lengths around the thresholds of the complexity score
ScoredRuleCounts == {0, 1, 2, 201, 501}

\* The lists a rule list of n rules can give: each risk loop reports a rule
\* at most once (two of the loops report severity low), a pair of rules
\* overlaps at most once, a rule is unused at most once; duplicate entries
\* come from the objects, not from the rules.
ScoreInputs(n) ==
    {[duplicates |-> 1..d, unused |-> [k \in 1..u |-> k],
      overlaps |-> [k \in 1..ov |-> k],
      risks |-> RisksOf("critical", c) \o RisksOf("high", h)
                \o RisksOf("medium", m) \o RisksOf("low", l)] :
        d \in 0..MaxDuplicates,
        u \in {x \in 0..MaxUnused : x <= n},
        ov \in {x \in 0..MaxOverlaps : 2 * x <= n * (n - 1)},
        c \in {x \in 0..MaxCritical : x <= n},
        h \in {x \in 0..1 : x <= n},
        m \in {x \in 0..1 : x <= n},
        l \in {x \in 0..1 : x <= 2 * n}}

ScoresInit ==
    /\ \E n \in ScoredRuleCounts :
          /\ config = [EmptyConfig EXCEPT !.rules =
                          [k \in 1..n |-> MkRule(k, "r", "allow", {"a"}, {"d"}, {"http"})]]
          /\ input \in ScoreInputs(n)
    /\ pc = "counted"
    /\ status = "none"
    /\ report = <<>>
    /\ history = <<>>
    /\ options = <<>>
    /\ warnings = <<>>

\* scores = self._calculate_scores(duplicates, overlaps, risks, unused)
Score ==
    /\ pc = "counted"
    /\ pc' = "scored"
    /\ status' = "returned"
    /\ report' = [scores |-> CalculateScores(config, input.duplicates, input.overlaps,
                                             input.risks, input.unused)]
    /\ UNCHANGED <<config, history, input, options, warnings>>

ScoresNext == Score

SpecScores == ScoresInit /\ [][ScoresNext]_vars

\* C12: the overall score and the optimization, security and complexity
\* scores are each in 0..100, whatever the numbers of duplicates, unused
\* objects, overlaps, risks and rules.
C12_ScoresWithinRange ==
    pc = "scored" =>
        /\ report.scores.overall_score \in 0..100
        /\ report.scores.optimization_score \in 0..100
        /\ report.scores.security_score \in 0..100
        /\ report.scores.complexity_score \in 0..100

\* Scores computed from deductions above 100 in each of the three sub-scores.
C12_Witness ==
    /\ pc = "scored"
    /\ Cardinality(input.duplicates) * 5 + Len(input.unused) * 2 > 100
    /\ SecurityDeductions(input.risks) > 100
    /\ Len(input.overlaps) * 10 + 20 > 100
    /\ Len(config.rules) > 500
    /\ report.scores.optimization_score = 0
    /\ report.scores.security_score = 0
    /\ report.scores.complexity_score = 0
    /\ report.scores.overall_score = 0

\* ------------------------------------------------------- Fortinet generator

\* A Service; its port text is kept as the sequence of its space-separated
\* words (<<>> for an absent or empty port).
MkService(name, protocol, port) == [name |-> name, protocol |-> protocol, port |-> port]

\* A set-typed field holding Python's None.
NoneSet == {None}

\* One entry of FORTINET_DEFAULTS: its key, protocol and port (as a string).
Default(name, protocol, port) == [name |-> name, protocol |-> protocol, port |-> port]

\* FortinetGenerator.FORTINET_DEFAULTS, in the order of the dict
FORTINET_DEFAULTS ==
    <<Default("ALL", "ip", None), Default("ALL_TCP", "tcp", "1-65535"),
      Default("ALL_UDP", "udp", "1-65535"), Default("ALL_ICMP", "icmp", None),
      Default("PING", "icmp", None), Default("IKE", "udp", "500"),
      Default("HTTP", "tcp", "80"), Default("HTTPS", "tcp", "443"),
      Default("SSH", "tcp", "22"), Default("TELNET", "tcp", "23"),
      Default("FTP", "tcp", "21"), Default("SMTP", "tcp", "25"),
      Default("DNS", "udp", "53"), Default("NTP", "udp", "123"),
      Default("SNMP", "udp", "161"), Default("LDAP", "tcp", "389"),
      Default("LDAPS", "tcp", "636"), Default("BGP", "tcp", "179"),
      Default("SYSLOG", "udp", "514"), Default("NFS", "tcp", "2049"),
      Default("GRE", "ip", None), Default("DHCP", "udp", "67"),
      Default("PPTP", "tcp", "1723"), Default("RDP", "tcp", "3389"),
      Default("NETBIOS-SSN", "tcp", "139"), Default("ONC-RPC", "tcp", "111")>>

\* the keys of FORTINET_DEFAULTS
DefaultNames == {FORTINET_DEFAULTS[i].name : i \in DOMAIN FORTINET_DEFAULTS}

\* FortinetGenerator.PORT_NAME_MAP (None for a word that is no key)
PORT_NAME_MAP(w) ==
    CASE w = "isakmp" -> "500" [] w = "bootps" -> "67" [] w = "bootpc" -> "68"
      [] w = "domain" -> "53" [] w = "www" -> "80" [] w = "pop3" -> "110"
      [] w = "imap4" -> "143" [] w = "sunrpc" -> "111" [] w = "pptp" -> "1723"
      [] w = "ldaps" -> "636" [] w = "ms-wbt-server" -> "3389"
      [] w = "rdp" -> "3389" [] w = "netbios-ssn" -> "139"
      [] OTHER -> None

\* sep.join(words)
RECURSIVE JoinWords(_, _)
JoinWords(words, sep) ==
    IF words = <<>> THEN ""
    ELSE IF Len(words) = 1 THEN words[1]
    ELSE words[1] \o sep \o JoinWords(Tail(words), sep)

\* the words of port_str.lower().replace('eq ', '').replace('range ', '').strip():
\* a word eq or range that another word follows is dropped
CleanPortWords(port_str) ==
    LET lowered == [i \in DOMAIN port_str |-> Lower(port_str[i])]
        kept == {i \in DOMAIN lowered :
                    ~(lowered[i] \in {"eq", "range"} /\ i < Len(lowered))}
        RECURSIVE Keep(_)
        Keep(i) == IF i > Len(lowered) THEN <<>>
                   ELSE (IF i \in kept THEN <<lowered[i]>> ELSE <<>>) \o Keep(i + 1)
    IN  Keep(1)

\* FortinetGenerator._normalize_port
NormalizePort(port_str) ==
    IF port_str = <<>> THEN None
    ELSE LET clean == CleanPortWords(port_str)
         IN  IF Len(clean) = 1 /\ PORT_NAME_MAP(clean[1]) # None
             THEN PORT_NAME_MAP(clean[1])
             ELSE JoinWords(clean, "-")

\* the inner loop of _optimize_configuration: the first default, in dict
\* order, with the service's protocol and either no port or the service's
\* normalized port; None when there is none
MatchDefault(svc) ==
    LET proto == Lower(svc.protocol)
        port_norm == NormalizePort(svc.port)
        hits == {i \in DOMAIN FORTINET_DEFAULTS :
                    /\ FORTINET_DEFAULTS[i].protocol = proto
                    /\ \/ FORTINET_DEFAULTS[i].port = None
                       \/ port_norm = FORTINET_DEFAULTS[i].port}
    IN  IF hits = {} THEN None
        ELSE FORTINET_DEFAULTS[CHOOSE i \in hits : \A k \in hits : i <= k].name

\* replacement_map of _optimize_configuration: custom service name -> default
ReplacementMap(services) ==
    LET matched == {s \in services : s.name \notin DefaultNames /\ MatchDefault(s) # None}
    IN  [n \in {s.name : s \in matched} |->
            MatchDefault(CHOOSE s \in matched : s.name = n)]

\* replace_in_collection of _optimize_configuration
ReplaceInCollection(collection, replacement_map) ==
    {IF item \in DOMAIN replacement_map THEN replacement_map[item] ELSE item :
        item \in collection}

\* A NatRule: the fields of models.NatRule that the modelled code reads.
MkNatRule(seq, name, osrc, tsrc, odst, tdst, osvc, tsvc) ==
    [sequence_id |-> seq, name |-> name, original_source |-> osrc,
     translated_source |-> tsrc, original_destination |-> odst,
     translated_destination |-> tdst, original_service |-> osvc,
     translated_service |-> tsvc, source_interface |-> {},
     destination_interface |-> {}, enabled |-> TRUE]

\* A ServiceGroup.
MkServiceGroup(name, members) == [name |-> name, members |-> members]

\* step 3 of _optimize_configuration that forgets all but one of the names
\* it collected for removal
RemainingServicesLastOnly(services, services_to_remove) ==
    IF services_to_remove = {} THEN services
    ELSE {s \in services :
            s.name # (CHOOSE n \in services_to_remove : TRUE)}

\* step 3 of _optimize_configuration: the services that stay defined
RemainingServices(services, services_to_remove) ==
    {s \in services : s.name \notin services_to_remove}

\* the first position of a sequence whose element has None in the given
\* set-typed field, Len + 1 when there is none
FirstNoneService(rules, field) ==
    LET bad == {k \in DOMAIN rules : rules[k][field] = NoneSet}
    IN  IF bad = {} THEN Len(rules) + 1
        ELSE CHOOSE k \in bad : \A m \in bad : k <= m

\* FortinetGenerator._optimize_configuration: the IR it leaves behind and
\* whether it raised.  svc.protocol.lower() raises on an absent protocol before
\* anything is changed; iterating an absent service set raises after the
\* rules and NAT rules before it have been rewritten.
OptimizeConfiguration(cfg) ==
    IF \E s \in cfg.services : s.name \notin DefaultNames /\ s.protocol = None
    THEN [config |-> cfg, raised |-> TRUE]
    ELSE
    LET replacement_map == ReplacementMap(cfg.services)
        services_to_remove == DOMAIN replacement_map
        bad_rule == FirstNoneService(cfg.rules, "service")
        bad_nat == FirstNoneService(cfg.nat_rules, "original_service")
        rules1 == [k \in DOMAIN cfg.rules |->
                     IF k < bad_rule
                     THEN [cfg.rules[k] EXCEPT
                             !.service = ReplaceInCollection(@, replacement_map)]
                     ELSE cfg.rules[k]]
        nats1 == [k \in DOMAIN cfg.nat_rules |->
                     IF k < bad_nat
                     THEN [cfg.nat_rules[k] EXCEPT
                             !.original_service =
                                 ReplaceInCollection(@, replacement_map),
                             !.translated_service =
                                 IF @ # None /\ @ \in DOMAIN replacement_map
                                 THEN replacement_map[@] ELSE @]
                     ELSE cfg.nat_rules[k]]
        groups1 == {[g EXCEPT !.members = ReplaceInCollection(@, replacement_map)] :
                        g \in cfg.service_groups}
    IN  IF services_to_remove = {} THEN [config |-> cfg, raised |-> FALSE]
        ELSE IF bad_rule <= Len(cfg.rules)
        THEN [config |-> [cfg EXCEPT !.rules = rules1], raised |-> TRUE]
        ELSE IF bad_nat <= Len(cfg.nat_rules)
        THEN [config |-> [cfg EXCEPT !.rules = rules1, !.nat_rules = nats1],
              raised |-> TRUE]
        ELSE [config |-> [cfg EXCEPT !.rules = rules1, !.nat_rules = nats1,
                                     !.service_groups = groups1,
                                     !.services = RemainingServices(
                                         cfg.services, services_to_remove)],
              raised |-> FALSE]

\* ---- iteration orders

\* the elements of a sequence
Range(seq) == {seq[i] : i \in DOMAIN seq}

\* all orders in which a set can be listed
Orderings(S) ==
    {f \in [1..Cardinality(S) -> S] : \A i, j \in DOMAIN f : i # j => f[i] # f[j]}

\* list(S) / for x in S: the members of S in the order the run's hashing
\* gives them (order lists every name that shares a set with another one)
Iterate(S, order) ==
    IF Cardinality(S) <= 1 THEN (IF S = {} THEN <<>> ELSE <<CHOOSE x \in S : TRUE>>)
    ELSE SelectSeq(order, LAMBDA x : x \in S)

\* every name the IR holds, in the order of Python's string comparison
SortedNames ==
    <<"10.0.0.9", "Ext1", "Ext2", "HTTP", "INSIDE_NET", "PING", "WebSrv", "a",
      "ag", "any", "app", "b", "d 1", "dns", "f1", "grp", "icmp", "inside",
      "outside", "ping", "port1", "ssl", "traceroute", "w1", "web">>

\* sorted(S)
Sorted(S) == SelectSeq(SortedNames, LAMBDA x : x \in S)

\* the names that sit in a set of two or more members somewhere in the IR
SharedNames(cfg) ==
    LET sets == {cfg.rules[k].service : k \in DOMAIN cfg.rules}
                \cup {cfg.rules[k].source : k \in DOMAIN cfg.rules}
                \cup {cfg.rules[k].destination : k \in DOMAIN cfg.rules}
                \cup {cfg.rules[k].source_interface : k \in DOMAIN cfg.rules}
                \cup {cfg.rules[k].destination_interface : k \in DOMAIN cfg.rules}
                \cup {cfg.nat_rules[k].original_service : k \in DOMAIN cfg.nat_rules}
                \cup {cfg.nat_rules[k].original_destination :
                        k \in DOMAIN cfg.nat_rules}
                \cup {g.members : g \in cfg.service_groups}
    IN  UNION {S \in sets : Cardinality(S) >= 2}

\* ---- the text a generator writes
\* The output is kept as the sequence of its lines; a line keeps the section
\* it belongs to, its keyword, the sequence-id of the entity it renders (0 if
\* none) and the names it lists, in the order written.  The model keeps the
\* sections that render rules and NAT rules (and, for Palo Alto, addresses).
Line(sec, kw, id, names) == [sec |-> sec, kw |-> kw, id |-> id, names |-> names]


\* str(n) on the counters of the model
ToStr(n) ==
    CASE n = 1 -> "1" [] n = 2 -> "2" [] n = 3 -> "3" [] n = 4 -> "4"
      [] n = 5 -> "5" [] OTHER -> "6"

\* FortinetGenerator._sanitize_name on the names of the model: "" for an
\* absent name, every character outside [A-Za-z0-9_.-] replaced by "_"
SanitizeName(name) ==
    CASE name = None -> ""
      [] name = "" -> ""
      [] name = "d 1" -> "d_1"
      [] OTHER -> name

\* [self._sanitize_name(x) for x in ...]
SanitizeAll(names) == [i \in DOMAIN names |-> SanitizeName(names[i])]

\* FortinetGenerator._map_service_name (the rows of its table that a name of
\* the model can hit), _sanitize_name otherwise
MapServiceName(name) ==
    IF name = None \/ name = "" THEN ""
    ELSE LET name_lower == Lower(name)
         IN  CASE name_lower = "ip" -> "ALL"
               [] name_lower = "tcp" -> "ALL_TCP"
               [] name_lower = "udp" -> "ALL_UDP"
               [] name_lower = "icmp" -> "PING"
               [] name_lower = "icmp-proto" -> "ALL_ICMP"
               [] name_lower = "isakmp" -> "IKE"
               [] name_lower = "nfs" -> "NFS"
               [] name_lower = "http" -> "HTTP"
               [] name_lower = "https" -> "HTTPS"
               [] name_lower = "ldap" -> "LDAP"
               [] name_lower \in {"bootpc", "bootps"} -> "DHCP"
               [] name_lower = "gre" -> "GRE"
               [] name_lower \in {"echo-request", "echo-reply"} -> "PING"
               [] OTHER -> SanitizeName(name)

\* [self._map_service_name(s) for s in ...]
MapServiceNames(names) == [i \in DOMAIN names |-> MapServiceName(names[i])]

\* ippool_map after _generate_ippools: translated source -> pool name
IppoolMap(cfg) ==
    [ts \in {cfg.nat_rules[k].translated_source : k \in
                {m \in DOMAIN cfg.nat_rules :
                    /\ cfg.nat_rules[m].translated_source # None
                    /\ Lower(cfg.nat_rules[m].translated_source)
                        \notin {"dynamic-ip-and-port", "original"}}}
        |-> SanitizeName("POOL_" \o ts)]

\* one NAT rule of _match_snat_rule matches the policy rule
SnatMatches(nat, policy_rule) ==
    /\ nat.translated_source # None
    /\ Lower(nat.translated_source) # "original"
    /\ LET nat_srcs == LowerSet(nat.original_source)
       IN  \/ "any" \in nat_srcs \/ "all" \in nat_srcs
           \/ nat_srcs \cap LowerSet(policy_rule.source) # {}
    /\ LET nat_dsts == LowerSet(nat.original_destination)
       IN  \/ "any" \in nat_dsts \/ "all" \in nat_dsts
           \/ nat_dsts \cap LowerSet(policy_rule.destination) # {}

\* FortinetGenerator._match_snat_rule: the position of the first matching
\* NAT rule, 0 when there is none
MatchSnatRule(cfg, policy_rule) ==
    LET hits == {k \in DOMAIN cfg.nat_rules : SnatMatches(cfg.nat_rules[k], policy_rule)}
    IN  IF hits = {} THEN 0 ELSE CHOOSE k \in hits : \A m \in hits : k <= m

\* the lines _generate_policies writes for one rule.  vip_map and dnat_map
\* are empty (no IR of the model that has rules has a NAT rule that
\* translates a destination), so every destination is written under its own
\* sanitized name.
PolicyLines(cfg, r, nat_mode, order) ==
    LET src_i == SanitizeAll(Iterate(r.source_interface, order))
        dst_i == SanitizeAll(Iterate(r.destination_interface, order))
        src_a == SanitizeAll(Iterate(r.source, order))
        dst_a == SanitizeAll(Iterate(r.destination, order))
        svcs == MapServiceNames(Iterate(r.service, order))
        act == IF r.action \in {"allow", "permit", "accept"} THEN "accept" ELSE "deny"
        snat == MatchSnatRule(cfg, r)
        ts == IF snat = 0 THEN None ELSE cfg.nat_rules[snat].translated_source
        nat == IF act # "accept" \/ nat_mode = "central" \/ snat = 0
               THEN <<Line("policy", "set nat", r.sequence_id, <<"disable">>)>>
               ELSE <<Line("policy", "set nat", r.sequence_id, <<"enable">>)>>
                    \o (IF ts = "dynamic-ip-and-port"
                        THEN <<Line("policy", "set ippool", r.sequence_id,
                                    <<"disable">>)>>
                        ELSE IF ts \in DOMAIN IppoolMap(cfg)
                        THEN <<Line("policy", "set ippool", r.sequence_id,
                                    <<"enable">>),
                               Line("policy", "set poolname", r.sequence_id,
                                    <<IppoolMap(cfg)[ts]>>)>>
                        ELSE <<>>)
    IN  <<Line("policy", "edit", r.sequence_id, <<>>),
          Line("policy", "set name", r.sequence_id, <<SanitizeName(r.name)>>),
          Line("policy", "set srcintf", r.sequence_id,
               IF src_i = <<>> THEN <<"any">> ELSE src_i),
          Line("policy", "set dstintf", r.sequence_id,
               IF dst_i = <<>> THEN <<"any">> ELSE dst_i),
          Line("policy", "set srcaddr", r.sequence_id,
               IF src_a = <<>> \/ "any" \in LowerSet(r.source)
               THEN <<"all">> ELSE src_a),
          Line("policy", "set dstaddr", r.sequence_id,
               IF dst_a = <<>> \/ "any" \in LowerSet(r.destination)
               THEN <<"all">> ELSE dst_a),
          Line("policy", "set service", r.sequence_id,
               IF svcs = <<>> \/ "any" \in LowerSet(r.service)
               THEN <<"ALL">> ELSE svcs),
          Line("policy", "set action", r.sequence_id, <<act>>)>>
        \o nat
        \o (IF r.enabled THEN <<>>
            ELSE <<Line("policy", "set status", r.sequence_id, <<"disable">>)>>)

\* the output buffer after the writes parts[from], .., parts[Len(parts)]
RECURSIVE Written(_, _)
Written(parts, from) ==
    IF from > Len(parts) THEN <<>> ELSE parts[from] \o Written(parts, from + 1)

\* FortinetGenerator._generate_policies: the rules in the order of the list
GeneratePolicies(cfg, nat_mode, order) ==
    LET one(r) == PolicyLines(cfg, r, nat_mode, order)
    IN  Written([k \in DOMAIN cfg.rules |-> one(cfg.rules[k])], 1)

\* the lines _generate_central_snat writes for one NAT rule
CentralSnatLines(r, order) ==
    IF r.translated_source = None \/ Lower(r.translated_source) = "original"
    THEN <<>>
    ELSE LET src_a == SanitizeAll(Iterate(r.original_source, order))
             dst_a == SanitizeAll(Iterate(r.original_destination, order))
         IN  <<Line("central-snat", "edit", r.sequence_id, <<>>),
               Line("central-snat", "set orig-addr", r.sequence_id,
                    IF src_a = <<>> \/ "any" \in LowerSet(r.original_source)
                    THEN <<"all">> ELSE src_a),
               Line("central-snat", "set dst-addr", r.sequence_id,
                    IF dst_a = <<>> \/ "any" \in LowerSet(r.original_destination)
                    THEN <<"all">> ELSE dst_a)>>

\* FortinetGenerator._generate_central_snat: NAT rules in the order of the list
GenerateCentralSnat(cfg, order) ==
    LET one(r) == CentralSnatLines(r, order)
    IN  Written([k \in DOMAIN cfg.nat_rules |-> one(cfg.nat_rules[k])], 1)

\* _generate_addresses: the block of the address objects, kept as the set
\* of the names of its entries (the entries are written in the iteration
\* order of a set, and nothing reads that order); nothing for an IR without
\* addresses
FortinetAddressLines(cfg) ==
    IF cfg.addresses = {} THEN <<>>
    ELSE <<[sec |-> "address", kw |-> "config firewall address", id |-> 0,
            names |-> <<>>,
            edits |-> {SanitizeName(a.name) : a \in cfg.addresses}]>>

\* FortinetGenerator._is_ip_address on the names of the model
IsIpAddress(val) == val \in {"203.0.113.9"}

\* FortinetGenerator._resolve_single_ip: the name itself if it is an IP
\* address, the value of the host, network or range of that name, else what
\* _extract_ip_from_string finds in the name (no other name of the model
\* holds an IP address), else None
ResolveSingleIp(cfg, val) ==
    IF val = None \/ val = "" THEN None
    ELSE IF IsIpAddress(val) THEN val
    ELSE IF \E a \in cfg.addresses : a.name = val /\ a.type \in {"host", "network", "range"}
    THEN (CHOOSE a \in cfg.addresses : a.name = val).value1
    ELSE None

\* list(r.original_destination)[0] if r.original_destination else ""
OrigDstRaw(r, order) ==
    IF r.original_destination = {} THEN "" ELSE Iterate(r.original_destination, order)[1]

\* is_dnat of _generate_vip: the NAT rule translates its destination to
\* another name
IsDnat(r, order) ==
    /\ r.translated_destination # None /\ r.translated_destination # ""
    /\ Lower(r.translated_destination) # "original"
    /\ OrigDstRaw(r, order) # ""
    /\ OrigDstRaw(r, order) # r.translated_destination

\* ext_ip of _generate_vip
ExtIp(cfg, r, order) ==
    IF ResolveSingleIp(cfg, OrigDstRaw(r, order)) = None THEN "0.0.0.0"
    ELSE ResolveSingleIp(cfg, OrigDstRaw(r, order))

\* the name _generate_vip gives the VIP of a NAT rule: the sanitized NAT rule
\* name, with _VIP behind it if it is a key of addr_map (the names of the
\* addresses as the IR has them); else DNAT_<ext_ip>; else VIP_<sequence-id>
VipName(cfg, r, ext_ip) ==
    IF r.name # None /\ SanitizeName(r.name) # ""
    THEN IF SanitizeName(r.name) \in {a.name : a \in cfg.addresses}
         THEN SanitizeName(r.name) \o "_VIP"
         ELSE SanitizeName(r.name)
    ELSE IF ext_ip # "0.0.0.0" THEN "DNAT_" \o ext_ip
    ELSE "VIP_" \o ToStr(r.sequence_id)

\* the loop of _generate_vip from NAT rule k on: one entry per destination
\* NAT rule whose VIP name was not written before
RECURSIVE VipLines(_, _, _, _)
VipLines(cfg, k, order, processed_vips) ==
    IF k > Len(cfg.nat_rules) THEN <<>>
    ELSE IF ~IsDnat(cfg.nat_rules[k], order)
            \/ VipName(cfg, cfg.nat_rules[k], ExtIp(cfg, cfg.nat_rules[k], order))
                  \in processed_vips
    THEN VipLines(cfg, k + 1, order, processed_vips)
    ELSE <<Line("nat-helper", "edit vip", cfg.nat_rules[k].sequence_id,
                <<VipName(cfg, cfg.nat_rules[k], ExtIp(cfg, cfg.nat_rules[k], order))>>)>>
         \o VipLines(cfg, k + 1, order,
                     processed_vips \cup
                        {VipName(cfg, cfg.nat_rules[k],
                                 ExtIp(cfg, cfg.nat_rules[k], order))})

\* _generate_interfaces raises AttributeError at members.split(',') for a
\* named aggregate of the target layout whose members are a list (the form
\* convert_config passes); it returns early on an IR without interfaces
FortinetInterfacesRaise(cfg, opts) ==
    /\ cfg.interfaces # {}
    /\ \E k \in DOMAIN opts.target_layout :
          opts.target_layout[k].name # "" /\ opts.target_layout[k].members_is_list

\* ----------------------------------------------------- Palo Alto generator

\* two rule names of 64 characters that agree in their first 63
LongNameA == "rule-0123456789-0123456789-0123456789-0123456789-0123456789-000a"

LongNameB == "rule-0123456789-0123456789-0123456789-0123456789-0123456789-000b"

\* PaloAltoSetGenerator._sanitize_name on the names of the model: "/" and "&"
\* become "n", "_eq" and "-eq" go, "--" becomes "-"; every other character
\* stays (a space too)
PaloAltoSanitizeName(name) ==
    CASE name = None -> ""
      [] name = "" -> ""
      [] name = "r/1" -> "rn1"
      [] name = "TCP_eq-80" -> "TCP-80"
      [] OTHER -> name

\* [self._sanitize_name(x) for x in ...]
PaloAltoSanitizeAll(names) == [i \in DOMAIN names |-> PaloAltoSanitizeName(names[i])]

\* name[:n] for n = 63 and n = 63 - len("_svc") on the names of the model:
\* only the two long names are longer than 59 characters
Truncate(name, n) ==
    IF name \in {LongNameA, LongNameB}
    THEN IF n = 63
         THEN "rule-0123456789-0123456789-0123456789-0123456789-0123456789-000"
         ELSE "rule-0123456789-0123456789-0123456789-0123456789-0123456789"
    ELSE name

\* len(name_suffix)
SuffixLen(suffix) == IF suffix = "" THEN 0 ELSE 4

\* _generate_interfaces_and_zones raises AttributeError at members.split(',')
\* for a named aggregate of the target layout whose members are a list
PaloAltoInterfacesRaise(opts) ==
    \E k \in DOMAIN opts.target_layout :
        opts.target_layout[k].name # "" /\ opts.target_layout[k].members_is_list

\* _generate_addresses raises AttributeError at addr.value1.startswith('*')
\* for an fqdn address without a value
PaloAltoAddressesRaise(cfg) ==
    \E a \in cfg.addresses : a.type = "fqdn" /\ a.value1 = None

\* _generate_services raises AttributeError at svc.protocol.lower()
PaloAltoServicesRaise(cfg) == \E s \in cfg.services : s.protocol = None

\* value1.startswith('*') on the values of the model
StartsWithStar(v) == v \in {"*.example.com"}

\* a generator that remembers no wildcard fqdn
NoWildcardFqdns(cfg) == {}

\* self.wildcard_fqdns after _generate_addresses: the sanitized names of the
\* fqdn addresses whose value starts with "*"
WildcardFqdns(cfg) ==
    {PaloAltoSanitizeName(a.name) :
        a \in {x \in cfg.addresses : x.type = "fqdn" /\ StartsWithStar(x.value1)}}

\* re.match of the IP pattern, and re.search of an IP inside a pool name, on
\* the names of the model
IsIp(name) == name \in {"10.0.0.9"}

\* the NAT pool objects of _generate_addresses: an address line for a
\* translated source or destination that is an IP and names no address yet
RECURSIVE NatPoolLines(_, _, _)
NatPoolLines(nats, k, existing) ==
    IF k > Len(nats) THEN <<>>
    ELSE LET ts == nats[k].translated_source
             td == nats[k].translated_destination
             new_ts == IF ts # None /\ ts # ""
                          /\ Lower(ts) \notin {"dynamic-ip-and-port", "original"}
                          /\ PaloAltoSanitizeName(ts) \notin existing /\ IsIp(ts)
                       THEN {PaloAltoSanitizeName(ts)} ELSE {}
             new_td == IF td # None /\ td # "" /\ Lower(td) # "original"
                          /\ PaloAltoSanitizeName(td) \notin (existing \cup new_ts)
                          /\ IsIp(td)
                       THEN {PaloAltoSanitizeName(td)} ELSE {}
         IN  [i \in 1..Cardinality(new_ts) |->
                 Line("address", "ip-netmask", 0, <<PaloAltoSanitizeName(ts)>>)]
             \o [i \in 1..Cardinality(new_td) |->
                 Line("address", "ip-netmask", 0, <<PaloAltoSanitizeName(td)>>)]
             \o NatPoolLines(nats, k + 1, existing \cup new_ts \cup new_td)

\* the three lines of the custom URL category of a wildcard fqdn
UrlCategoryLines(name) ==
    <<Line("url-category", "list", 0, <<name>>),
      Line("url-category", "type", 0, <<name>>),
      Line("url-category", "description", 0, <<name>>)>>

\* PaloAltoSetGenerator._generate_addresses: nothing for an IR without
\* addresses; otherwise one line per address, sorted by name, none for a
\* wildcard fqdn; then the custom URL categories of the wildcard fqdns, then
\* the NAT pool objects
PaloAltoAddressLines(cfg) ==
    LET names == Sorted({a.name : a \in cfg.addresses})
        wild == Sorted(WildcardFqdns(cfg))
        one(n) ==
            LET addr == CHOOSE a \in cfg.addresses : a.name = n
            IN  IF addr.type = "fqdn" /\ StartsWithStar(addr.value1) THEN <<>>
                ELSE IF addr.type \in {"host", "network", "range", "fqdn"}
                THEN <<Line("address", addr.type, 0, <<PaloAltoSanitizeName(addr.name)>>)>>
                ELSE <<>>
    IN  IF cfg.addresses = {} THEN <<>>
        ELSE Written([k \in DOMAIN names |-> one(names[k])], 1)
             \o Written([k \in DOMAIN wild |-> UrlCategoryLines(wild[k])], 1)
             \o NatPoolLines(cfg.nat_rules, 1,
                             {PaloAltoSanitizeName(a.name) : a \in cfg.addresses})

\* PaloAltoSetGenerator._generate_services: nothing for an IR without
\* services; otherwise the section banner and one line per tcp/udp service
\* with a port and per icmp service, sorted by name
PaloAltoServiceLines(cfg) ==
    LET names == Sorted({s.name : s \in cfg.services})
        one(n) ==
            LET svc == CHOOSE s \in cfg.services : s.name = n
            IN  IF \/ Lower(svc.protocol) \in {"tcp", "udp"} /\ svc.port # <<>>
                   \/ Lower(svc.protocol) = "icmp"
                THEN <<Line("service", Lower(svc.protocol), 0, <<PaloAltoSanitizeName(svc.name)>>)>>
                ELSE <<>>
    IN  IF cfg.services = {} THEN <<>>
        ELSE <<Line("service", "#", 0, <<>>)>>
             \o Written([k \in DOMAIN names |-> one(names[k])], 1)

\* the lines _generate_address_groups and _generate_service_groups write for
\* a set of groups: nothing for an empty set; otherwise the section banner
\* and one line per group with members, groups and members sorted by name
PaloAltoGroupLines(groups, sec) ==
    LET names == Sorted({g.name : g \in groups})
        one(n) ==
            LET grp == CHOOSE g \in groups : g.name = n
            IN  IF grp.members = {} THEN <<>>
                ELSE <<Line(sec, "static", 0,
                            <<PaloAltoSanitizeName(grp.name)>> \o PaloAltoSanitizeAll(Sorted(grp.members)))>>
    IN  IF groups = {} THEN <<>>
        ELSE <<Line(sec, "#", 0, <<>>)>>
             \o Written([k \in DOMAIN names |-> one(names[k])], 1)

\* the applications _generate_rules derives from a service whose upper-cased
\* name contains ICMP, PING or TRACEROUTE ({} for any other service)
IcmpApps(svc) ==
    CASE Lower(svc) = "traceroute" -> {"traceroute"}
      [] Lower(svc) = "ping" -> {"ping"}
      [] Lower(svc) = "icmp" -> {"icmp", "ping"}
      [] OTHER -> {}

\* "[ a b ]" member list of a sorted name list, or any
MembersOrAny(S) ==
    IF S = {} \/ \E x \in S : Lower(x) \in {"any", "all"} THEN <<"any">>
    ELSE PaloAltoSanitizeAll(Sorted(S))

\* dnat_reverse_map of _generate_rules: the translated destination of every
\* NAT rule that has one and an original destination, mapped to
\* list(original_destination)[0]; a later NAT rule overwrites an earlier one
DnatReverseMap(cfg, order) ==
    LET maps == {k \in DOMAIN cfg.nat_rules :
                    /\ cfg.nat_rules[k].translated_destination \notin {None, ""}
                    /\ cfg.nat_rules[k].original_destination \notin {{}, NoneSet}}
        last(d) == CHOOSE k \in maps :
                      /\ cfg.nat_rules[k].translated_destination = d
                      /\ \A m \in maps :
                            cfg.nat_rules[m].translated_destination = d => m <= k
    IN  [d \in {cfg.nat_rules[k].translated_destination : k \in maps} |->
            Iterate(cfg.nat_rules[last(d)].original_destination, order)[1]]

\* final_destinations of one rule: a wildcard fqdn left out, a translated
\* destination replaced by what dnat_reverse_map holds for it
FinalDestinations(r, wild, dnat) ==
    {IF d \in DOMAIN dnat THEN dnat[d] ELSE d :
        d \in {x \in r.destination : PaloAltoSanitizeName(x) \notin wild}}

\* custom_url_categories of one rule
CustomUrlCategories(r, wild) ==
    {PaloAltoSanitizeName(x) : x \in {y \in r.destination : PaloAltoSanitizeName(y) \in wild}}

\* the name _generate_rules writes for a rule and a suffix
PaloAltoRuleName(r, suffix) ==
    Truncate(PaloAltoSanitizeName(r.name), 63 - SuffixLen(suffix)) \o suffix

\* the lines _generate_rules writes for one rule: one block for the regular
\* services (listed in the order the service set iterates) and one for the
\* applications (the rule's own and those of its ICMP services)
PaloAltoRuleLines(r, order, wild, dnat) ==
    LET regular_svcs == SelectSeq(Iterate(r.service, order),
                                  LAMBDA x : IcmpApps(x) = {})
        icmp_apps == r.application \cup UNION {IcmpApps(x) : x \in r.service}
        is_allow == r.action # None /\ Lower(r.action) \in {"allow", "permit", "accept"}
        common(name) ==
            <<Line("rule", "to", r.sequence_id, <<name>> \o Sorted(r.destination_interface)),
              Line("rule", "from", r.sequence_id, <<name>> \o Sorted(r.source_interface)),
              Line("rule", "source", r.sequence_id, <<name>> \o MembersOrAny(r.source)),
              Line("rule", "destination", r.sequence_id,
                   <<name>> \o MembersOrAny(FinalDestinations(r, wild, dnat))),
              Line("rule", "category", r.sequence_id,
                   <<name>> \o (IF CustomUrlCategories(r, wild) = {} THEN <<"any">>
                                ELSE Sorted(CustomUrlCategories(r, wild))))>>
        tail(name) ==
            <<Line("rule", "action", r.sequence_id,
                   <<name, IF is_allow THEN "allow" ELSE "deny">>)>>
            \o (IF r.enabled THEN <<>>
                ELSE <<Line("rule", "disabled", r.sequence_id, <<name, "yes">>)>>)
            \o (IF r.time_range \in {None, ""} THEN <<>>
                ELSE <<Line("rule", "schedule", r.sequence_id, <<name, r.time_range>>)>>)
        svc_filtered == SelectSeq(regular_svcs, LAMBDA x : Lower(x) # "application-default")
        explicit ==
            IF regular_svcs # <<>> \/ icmp_apps = {}
            THEN LET name == PaloAltoRuleName(r, IF icmp_apps # {} /\ regular_svcs # <<>>
                                                THEN "_svc" ELSE "")
                 IN  common(name)
                     \o <<Line("rule", "application", r.sequence_id, <<name, "any">>),
                          Line("rule", "service", r.sequence_id,
                               <<name>> \o
                               (IF regular_svcs = <<>>
                                   \/ \E x \in Range(regular_svcs) :
                                        Lower(x) \in {"any", "all"}
                                THEN <<"any">>
                                ELSE IF svc_filtered = <<>>
                                THEN <<"application-default">>
                                ELSE PaloAltoSanitizeAll(svc_filtered)))>>
                     \o tail(name)
            ELSE <<>>
        by_app ==
            IF icmp_apps # {}
            THEN LET name == PaloAltoRuleName(r, IF regular_svcs # <<>> THEN "_app" ELSE "")
                 IN  common(name)
                     \o <<Line("rule", "application", r.sequence_id,
                               <<name>> \o Sorted(icmp_apps)),
                          Line("rule", "service", r.sequence_id,
                               <<name, "application-default">>)>>
                     \o tail(name)
            ELSE <<>>
    IN  explicit \o by_app

\* PaloAltoSetGenerator._generate_rules: the rules in the order of the list
PaloAltoGenerateRules(cfg, order) ==
    LET one(r) == PaloAltoRuleLines(r, order, WildcardFqdns(cfg), DnatReverseMap(cfg, order))
    IN  Written([k \in DOMAIN cfg.rules |-> one(cfg.rules[k])], 1)

\* the lines _generate_nat_rules writes for one NAT rule; the service is
\* list(rule.original_service)[0], the member the set happens to yield first
PaloAltoNatLines(r, order) ==
    LET has_svc == r.original_service # NoneSet /\ r.original_service # {}
        is_icmp == has_svc /\ \E x \in r.original_service : IcmpApps(x) # {}
        svc == IF is_icmp THEN <<"any">>
               ELSE IF has_svc /\ ~\E x \in r.original_service :
                                      Lower(x) \in {"any", "all"}
               THEN <<PaloAltoSanitizeName(Iterate(r.original_service, order)[1])>>
               ELSE <<"any">>
    IN  <<Line("nat", "from", r.sequence_id, <<r.name>> \o Sorted(r.source_interface)),
          Line("nat", "to", r.sequence_id, <<r.name>> \o Sorted(r.destination_interface)),
          Line("nat", "source", r.sequence_id, <<r.name>> \o MembersOrAny(r.original_source)),
          Line("nat", "destination", r.sequence_id,
               <<r.name>> \o MembersOrAny(r.original_destination)),
          Line("nat", "service", r.sequence_id, <<r.name>> \o svc)>>
        \o (IF r.translated_source = None THEN <<>>
            ELSE IF r.translated_source = "dynamic-ip-and-port"
            THEN <<Line("nat", "source-translation", r.sequence_id,
                        <<r.name, "dynamic-ip-and-port">>
                        \o (IF r.destination_interface = {} THEN <<>>
                            ELSE <<Sorted(r.destination_interface)[1]>>))>>
            ELSE <<Line("nat", "source-translation", r.sequence_id,
                        <<r.name, PaloAltoSanitizeName(r.translated_source)>>)>>)
        \o (IF r.translated_destination = None THEN <<>>
            ELSE <<Line("nat", "destination-translation", r.sequence_id,
                        <<r.name, PaloAltoSanitizeName(r.translated_destination)>>)>>)

\* PaloAltoSetGenerator._generate_nat_rules: NAT rules in the order of the list
PaloAltoGenerateNatRules(cfg, order) ==
    LET one(r) == PaloAltoNatLines(r, order)
    IN  Written([k \in DOMAIN cfg.nat_rules |-> one(cfg.nat_rules[k])], 1)

\* ---------------------------------------------------- the generate() calls

\* f.write("! --- ... ---\n"): the banner generate() writes ahead of a section
Banner(sec) == Line(sec, "!", 0, <<>>)

\* pc after one more generate()
AfterGenerate == IF pc = "parsed" THEN "generated" ELSE "regenerated"

\* one finished generate(): which generator, the IR before and after, whether
\* an exception left it, and the text it returned
Run(generator, before, after, raised, text) ==
    [generator |-> generator, before |-> before, after |-> after,
     raised |-> raised, text |-> text]

\* FortinetGenerator(config, nat_mode, target_layout).generate():
\* _optimize_configuration rewrites the IR in place, then the sections are
\* written; an exception in _optimize_configuration or _generate_interfaces
\* leaves generate() with the IR as changed so far.
FortinetGenerate ==
    /\ pc \in {"parsed", "generated"}
    /\ \E optimized \in {OptimizeConfiguration(config)} :
       \E cfg \in {optimized.config} :
       \E raised \in {optimized.raised \/ FortinetInterfacesRaise(cfg, options)} :
       \E order \in Orderings(SharedNames(cfg)) :
       \E text \in {<<Banner("interface"), Banner("zone"), Banner("address")>>
                    \o FortinetAddressLines(cfg)
                    \o <<Banner("address-group"), Banner("service"),
                         Banner("security-profile"), Banner("nat-helper")>>
                    \o VipLines(cfg, 1, order, {})
                    \o (IF options.nat_mode = "central"
                        THEN GenerateCentralSnat(cfg, order) ELSE <<>>)
                    \o <<Banner("policy")>>
                    \o GeneratePolicies(cfg, options.nat_mode, order)
                    \o <<Banner("route")>>} :
          /\ config' = cfg
          /\ status' = IF raised THEN "raised" ELSE "returned"
          /\ history' = Append(history,
                 Run("fortinet", config, cfg, raised,
                     IF raised THEN <<>> ELSE text))
    /\ pc' = AfterGenerate
    /\ UNCHANGED <<report, input, options, warnings>>

\* PaloAltoSetGenerator(config, target_layout).generate(): the sections in
\* order; the IR is only read.
PaloAltoGenerate ==
    /\ pc \in {"parsed", "generated"}
    /\ LET raised == \/ PaloAltoInterfacesRaise(options)
                     \/ PaloAltoAddressesRaise(config)
                     \/ PaloAltoServicesRaise(config)
       IN  \E order \in Orderings(SharedNames(config)) :
             LET text == PaloAltoAddressLines(config)
                         \o PaloAltoServiceLines(config)
                         \o PaloAltoGroupLines(config.address_groups, "address-group")
                         \o PaloAltoGroupLines(config.service_groups, "service-group")
                         \o PaloAltoGenerateRules(config, order)
                         \o PaloAltoGenerateNatRules(config, order)
             IN  /\ status' = IF raised THEN "raised" ELSE "returned"
                 /\ history' = Append(history,
                        Run("paloalto", config, config, raised,
                            IF raised THEN <<>> ELSE text))
    /\ pc' = AfterGenerate
    /\ UNCHANGED <<config, report, input, options, warnings>>

\* ---- the IRs and options handed to the generators

\* Longest rule list of an IR handed to a generator; sequence-ids range over
\* 1..MaxGenRules.
MaxGenRules == 2

GenServiceSets == {{"web", "app"}, {"dns"}}

GenRuleLists(n) ==
    {[k \in 1..n |-> MkRule(f[k].seq, RuleNames[k], "allow", {"a"}, {"d 1"},
                            f[k].service)] :
        f \in [1..n -> [seq : 1..MaxGenRules, service : GenServiceSets]]}

ServiceWeb == MkService("web", "tcp", <<"eq", "WWW">>)
ServiceApp == MkService("app", "tcp", <<"8080">>)
ServiceDns == MkService("dns", "UDP", <<"53">>)
ServiceHttp == MkService("HTTP", "tcp", <<"8080">>)
ServiceBad == MkService("web", None, <<"80">>)

ServiceChoicesOfIR ==
    {{}, {ServiceWeb, ServiceApp}, {ServiceWeb, ServiceDns, ServiceHttp},
     {ServiceBad, ServiceApp}}

NatChoices ==
    {<<>>,
     <<MkNatRule(1, "snat", {"a"}, "dynamic-ip-and-port", {"any"}, None,
                 {"web", "app"}, "web")>>,
     <<MkNatRule(1, "objnat", {"a"}, "b", {"any"}, None, NoneSet, None)>>,
     <<MkNatRule(2, "n2", {"a"}, "b", {"any"}, None, {"web"}, None),
       MkNatRule(1, "n1", {"any"}, "dynamic-ip-and-port", {"d 1"}, None,
                 {"any"}, None)>>}

ServiceGroupChoices == {{}, {MkServiceGroup("grp", {"web", "app"})}}

\* A Group of addresses.
MkGroup(name, members) == [name |-> name, members |-> members]

AddressGroupChoices == {{}, {MkGroup("ag", {"a", "b"})}}

AddressChoicesOfIR ==
    {{MkAddress("a", "host", "10.0.0.1", None), MkAddress("b", "host", "10.0.0.2", None)},
     {MkAddress("a", "host", "10.0.0.1", None), MkAddress("f1", "fqdn", None, None)}}

OptionChoices ==
    {[nat_mode |-> "policy", target_layout |-> <<>>],
     [nat_mode |-> "central", target_layout |-> <<>>],
     [nat_mode |-> "policy",
      target_layout |-> <<[name |-> "ae1", members_is_list |-> TRUE]>>]}

\* The IR of an inside network behind a source NAT to the outside interface:
\* the network address INSIDE_NET, one NAT rule from it (no original
\* destination, no service) and one allow rule from it to anywhere.
InsideNetConfig ==
    [EmptyConfig EXCEPT
        !.addresses = {MkAddress("INSIDE_NET", "network", "10.0.0.0", "24")},
        !.nat_rules =
            <<[MkNatRule(1, "NAT_INSIDE_NET", {"INSIDE_NET"}, "dynamic-ip-and-port",
                         {}, None, {}, None)
               EXCEPT !.source_interface = {"inside"},
                      !.destination_interface = {"outside"}]>>,
        !.rules = <<MkRule(1, "r1", "allow", {"INSIDE_NET"}, {"any"}, {"any"})>>]

GeneratorInit ==
    /\ \/ \E n \in 0..MaxGenRules : \E rules \in GenRuleLists(n) :
          \E services \in ServiceChoicesOfIR : \E nats \in NatChoices :
          \E groups \in ServiceGroupChoices : \E addrs \in AddressChoicesOfIR :
          \E address_groups \in AddressGroupChoices :
             config = [EmptyConfig EXCEPT
                          !.rules = rules, !.services = services,
                          !.nat_rules = nats, !.service_groups = groups,
                          !.addresses = addrs, !.address_groups = address_groups,
                          !.interfaces = {[name |-> "port1", zone |-> None]}]
       \/ config = InsideNetConfig
    /\ options \in OptionChoices
    /\ pc = "parsed"
    /\ status = "none"
    /\ report = <<>>
    /\ history = <<>>
    /\ input = <<>>
    /\ warnings = <<>>

GeneratorNext == FortinetGenerate \/ PaloAltoGenerate

SpecGenerator == GeneratorInit /\ [][GeneratorNext]_vars

\* ---- the IRs handed to the Palo Alto generator alone

\* the web server, its two external addresses, a wildcard fqdn and a plain one
PaloAltoAddresses ==
    {MkAddress("WebSrv", "host", "10.0.0.5", None),
     MkAddress("Ext1", "host", "203.0.113.1", None),
     MkAddress("Ext2", "host", "203.0.113.2", None),
     MkAddress("w1", "fqdn", "*.example.com", None),
     MkAddress("f1", "fqdn", "www.example.com", None)}

\* what a rule of these IRs may be: its name, destinations, services and
\* applications
PaloAltoRuleShapes ==
    {[name |-> "r/1", destination |-> {"WebSrv"}, service |-> {"web"},
      application |-> {"ssl"}],
     [name |-> "rn1", destination |-> {"w1", "WebSrv"}, service |-> {"web", "PING"},
      application |-> {}],
     [name |-> LongNameA, destination |-> {"w1"}, service |-> {"PING"}, application |-> {}],
     [name |-> LongNameB, destination |-> {"Ext1"}, service |-> {"web"}, application |-> {}],
     [name |-> "r5", destination |-> {"any"}, service |-> {"icmp"}, application |-> {}]}

\* Longest rule list of an IR handed to the Palo Alto generator alone; the
\* rule at position k has sequence-id k.
MaxPaloAltoRules == 2

PaloAltoRuleLists(n) ==
    {[k \in 1..n |->
        [MkRule(k, f[k].name, "allow", {"a"}, f[k].destination, f[k].service)
         EXCEPT !.application = f[k].application]] :
        f \in [1..n -> PaloAltoRuleShapes]}

\* no NAT rule; one or two destination NATs to the web server; one without an
\* original destination; a source NAT to an address that is no object
PaloAltoNatChoices ==
    {<<>>,
     <<MkNatRule(1, "dnat1", {"any"}, None, {"Ext1"}, "WebSrv", {}, None)>>,
     <<MkNatRule(1, "dnat1", {"any"}, None, {"Ext1"}, "WebSrv", {}, None),
       MkNatRule(2, "dnat2", {"any"}, None, {"Ext2"}, "WebSrv", {}, None)>>,
     <<MkNatRule(1, "dnat3", {"any"}, None, {}, "WebSrv", {}, None)>>,
     <<MkNatRule(1, "pool", {"a"}, "10.0.0.9", {"any"}, None, {}, None)>>}

PaloAltoInit ==
    /\ \E n \in 0..MaxPaloAltoRules : \E rules \in PaloAltoRuleLists(n) :
       \E nats \in PaloAltoNatChoices :
          config = [EmptyConfig EXCEPT
                       !.rules = rules, !.nat_rules = nats,
                       !.addresses = PaloAltoAddresses]
    /\ options \in OptionChoices
    /\ pc = "parsed"
    /\ status = "none"
    /\ report = <<>>
    /\ history = <<>>
    /\ input = <<>>
    /\ warnings = <<>>

PaloAltoNext == PaloAltoGenerate

SpecPaloAlto == PaloAltoInit /\ [][PaloAltoNext]_vars

\* ---- the IRs of the destination NAT of the Fortinet generator
\* These IRs hold addresses and NAT rules and no rule, so that
\* _generate_policies returns at once.

\* the external and the internal hosts
VipHosts ==
    {MkAddress("Ext1", "host", "203.0.113.1", None),
     MkAddress("Ext2", "host", "203.0.113.2", None),
     MkAddress("WebSrv", "host", "10.0.0.5", None)}

\* the hosts alone, or with addresses whose names are those of a NAT rule,
\* of a NAT rule with _VIP behind it, or of an external IP behind DNAT_
VipAddressChoices ==
    {VipHosts,
     VipHosts \cup {MkAddress("dnat1", "host", "10.0.0.6", None)},
     VipHosts \cup {MkAddress("dnat1", "host", "10.0.0.6", None),
                    MkAddress("dnat1_VIP", "host", "10.0.0.7", None)},
     VipHosts \cup {MkAddress("d 1", "host", "10.0.0.6", None)},
     VipHosts \cup {MkAddress("DNAT_203.0.113.1", "host", "10.0.0.6", None)}}

\* what a NAT rule of these IRs may be: its name, original destination and
\* translated destination
VipNatShapes ==
    {[name |-> "dnat1", odst |-> {"Ext1"}, tdst |-> "WebSrv"],
     [name |-> "d 1", odst |-> {"Ext1", "Ext2"}, tdst |-> "WebSrv"],
     [name |-> "", odst |-> {"Ext1"}, tdst |-> "WebSrv"],
     [name |-> "", odst |-> {"203.0.113.9"}, tdst |-> "WebSrv"],
     [name |-> None, odst |-> {"nohost"}, tdst |-> "WebSrv"],
     [name |-> "same", odst |-> {"WebSrv"}, tdst |-> "WebSrv"],
     [name |-> "snat", odst |-> {"any"}, tdst |-> None]}

\* the most NAT rules of such an IR
MaxVipNats == 2

\* the NAT rule lists of n rules: the rule at position k has sequence-id k
VipNatLists(n) ==
    {[k \in 1..n |-> MkNatRule(k, shapes[k].name, {"any"}, None, shapes[k].odst,
                               shapes[k].tdst, {}, None)] :
        shapes \in [1..n -> VipNatShapes]}

VipInit ==
    /\ \E n \in 0..MaxVipNats : \E nats \in VipNatLists(n) :
       \E addrs \in VipAddressChoices :
          config = [EmptyConfig EXCEPT !.nat_rules = nats, !.addresses = addrs]
    /\ options \in OptionChoices
    /\ pc = "parsed"
    /\ status = "none"
    /\ report = <<>>
    /\ history = <<>>
    /\ input = <<>>
    /\ warnings = <<>>

VipNext == FortinetGenerate

SpecVip == VipInit /\ [][VipNext]_vars

\* ---- the IRs of the service canonicalization
\* Custom services of the protocols icmp, ip and tcp, and rules that name
\* them.

\* ICMP echo and IP protocol 50 as custom services
ServiceEcho == MkService("icmp-echo", "icmp", <<"echo">>)

ServiceProto50 == MkService("proto50", "ip", <<"50">>)

\* what the rules of these IRs may name
CanonServiceSets == {{"icmp-echo"}, {"proto50", "app"}, {"web"}}

\* the most rules of such an IR
MaxCanonRules == 2

\* the rule lists of n rules: the rule at position k has sequence-id k
CanonRuleLists(n) ==
    {[k \in 1..n |-> MkRule(k, RuleNames[k], "allow", {"a"}, {"b"}, f[k])] :
        f \in [1..n -> CanonServiceSets]}

CanonInit ==
    /\ \E n \in 0..MaxCanonRules : \E rules \in CanonRuleLists(n) :
       \E services \in SUBSET {ServiceEcho, ServiceProto50, ServiceApp, ServiceWeb} :
       \E groups \in {{}, {MkServiceGroup("grp", {"icmp-echo", "app"})}} :
          config = [EmptyConfig EXCEPT
                       !.rules = rules, !.services = services,
                       !.service_groups = groups]
    /\ options \in OptionChoices
    /\ pc = "parsed"
    /\ status = "none"
    /\ report = <<>>
    /\ history = <<>>
    /\ input = <<>>
    /\ warnings = <<>>

CanonNext == FortinetGenerate

SpecCanon == CanonInit /\ [][CanonNext]_vars

\* ---- properties of the generators

\* the sequence-ids of the lines of the given sections, in text order
SectionIds(text, secs) ==
    LET sel == SelectSeq(text, LAMBDA l : l.sec \in secs)
    IN  [i \in DOMAIN sel |-> sel[i].id]

\* a sequence of numbers that never decreases
NonDecreasing(ids) == \A i, j \in DOMAIN ids : i < j => ids[i] <= ids[j]

\* C1 as stated: two generate() calls of the same generator on equal IRs
\* (sets compared by membership) with the same options return the same text.
C1_GenerateDeterministic ==
    \A i, j \in DOMAIN history :
        (/\ history[i].generator = history[j].generator
         /\ history[i].before = history[j].before
         /\ ~history[i].raised /\ ~history[j].raised)
        => history[i].text = history[j].text

\* C2 as stated: every generate() renders the security rules in ascending
\* sequence-id and the NAT rules in ascending sequence-id, whatever the order
\* of the IR's lists.
C2_RenderedInSequenceOrder ==
    \A k \in DOMAIN history :
        ~history[k].raised =>
            /\ NonDecreasing(SectionIds(history[k].text, {"policy", "rule"}))
            /\ NonDecreasing(SectionIds(history[k].text, {"nat", "central-snat"}))

\* C6 as stated: no exception propagates out of generate(), whatever the IR
\* (absent protocol, value or set field included) and the options.
C6_GenerateNeverRaises ==
    \A k \in DOMAIN history : ~history[k].raised

\* C9 as stated: after generate() returns, every container of the IR and every
\* field of every entity equals its value before the call.
C9_GenerateLeavesIRUnchanged ==
    \A k \in DOMAIN history :
        ~history[k].raised => history[k].after = history[k].before

\* the place of a section in the order interfaces, zones, addresses,
\* address-groups, services, service-groups, security-profiles, NAT helpers,
\* security policies, routing, dynamic routing; 0 for the lines that list
\* names no section (the NAT rules Palo Alto writes after its security rules)
SectionRank(sec) ==
    CASE sec = "interface" -> 1
      [] sec = "zone" -> 2
      [] sec = "address" -> 3
      [] sec = "address-group" -> 4
      [] sec = "service" -> 5
      [] sec = "service-group" -> 6
      [] sec = "security-profile" -> 7
      [] sec \in {"nat-helper", "central-snat"} -> 8
      [] sec \in {"policy", "rule"} -> 9
      [] sec = "route" -> 10
      [] sec = "dynamic-routing" -> 11
      [] OTHER -> 0

\* C13 as stated: in the text of every generate(), no line of a section
\* comes before a line of a section that precedes it in the order interfaces,
\* zones, addresses, address-groups, services, service-groups,
\* security-profiles, NAT helpers, security policies, routing, dynamic routing.
C13_SectionsInListedOrder ==
    \A k \in DOMAIN history :
        ~history[k].raised =>
            \A i, j \in DOMAIN history[k].text :
                (/\ i < j
                 /\ SectionRank(history[k].text[i].sec) # 0
                 /\ SectionRank(history[k].text[j].sec) # 0)
                => SectionRank(history[k].text[i].sec)
                       <= SectionRank(history[k].text[j].sec)

\* C17 as stated: for the IR with the network address INSIDE_NET, the NAT
\* rule from {INSIDE_NET} to dynamic-ip-and-port between inside and outside
\* and its security rule, the Fortinet generator in policy mode writes a
\* policy entry that lists INSIDE_NET, has set nat enable and has no
\* set poolname.
C17_PolicyHasNatEnabled ==
    \A k \in DOMAIN history :
        (/\ history[k].generator = "fortinet" /\ ~history[k].raised
         /\ history[k].before = InsideNetConfig
         /\ options.nat_mode = "policy")
        => \E i \in DOMAIN history[k].text :
              /\ history[k].text[i].sec = "policy"
              /\ history[k].text[i].kw = "set srcaddr"
              /\ "INSIDE_NET" \in Range(history[k].text[i].names)
              /\ \E j \in DOMAIN history[k].text :
                    /\ history[k].text[j].sec = "policy"
                    /\ history[k].text[j].id = history[k].text[i].id
                    /\ history[k].text[j].kw = "set nat"
                    /\ history[k].text[j].names = <<"enable">>
              /\ \A j \in DOMAIN history[k].text :
                    ~(/\ history[k].text[j].sec = "policy"
                      /\ history[k].text[j].id = history[k].text[i].id
                      /\ history[k].text[j].kw = "set poolname")

\* what the canonicalization may rewrite: the service set, each rule's
\* service set, each NAT rule's service fields, each service group's members
ServiceView(cfg) ==
    [services |-> cfg.services,
     rules |-> [k \in DOMAIN cfg.rules |-> cfg.rules[k].service],
     nat_rules |-> [k \in DOMAIN cfg.nat_rules |->
                      <<cfg.nat_rules[k].original_service,
                        cfg.nat_rules[k].translated_service>>],
     service_groups |-> {<<g.name, g.members>> : g \in cfg.service_groups}]

\* C10: a second application of the Fortinet canonicalization, to the IR the
\* first one left, changes nothing: services, rule service sets, NAT service
\* fields and service-group members are the same before and after it.
C10_CanonicalizationIdempotent ==
    \A k \in DOMAIN history :
        (/\ k > 1
         /\ history[k].generator = "fortinet"
         /\ history[k - 1].generator = "fortinet")
        => ServiceView(history[k].after) = ServiceView(history[k].before)

\* Two Fortinet runs in a row, the first of which rewrote a rule, a NAT rule
\* and a group and removed services, the second of which changed nothing.
C10_Witness ==
    /\ Len(history) = 2
    /\ history[1].generator = "fortinet" /\ history[2].generator = "fortinet"
    /\ ~history[1].raised /\ ~history[2].raised
    /\ history[1].after.services # history[1].before.services
    /\ Len(history[1].before.rules) > 0
    /\ history[1].after.rules # history[1].before.rules
    /\ Len(history[1].before.nat_rules) > 0
    /\ history[1].after.nat_rules # history[1].before.nat_rules
    /\ history[1].after.service_groups # history[1].before.service_groups
    /\ history[2].before = history[1].after
    /\ history[2].after = history[2].before

\* ================================================================= parsers
\* A text is kept as the sequence of its lines and a line as the sequence of
\* its words; a CSV file as the sequence of its data rows, a row as a record
\* of its columns with None in the columns a short row does not reach
\* (csv.DictReader's restval).  A parser works on a parse state: the IR built
\* so far, the warnings appended so far and whether an exception has left it.

\* Most entries (lines, rows, block entries) of one input text.
MaxEntries == 2

\* the parse state a parser starts from: FirewallConfig()
StartState == [config |-> EmptyConfig, warnings |-> <<>>, raised |-> FALSE]

\* ConversionWarning(category='Parser', ...)
Warning(message, original_line, severity) ==
    [category |-> "Parser", message |-> message,
     original_line |-> original_line, severity |-> severity]

\* str.isdigit() on the words of the model
IsDigit(s) == s \in {"1", "2", "3", "5", "10", "80"}

\* int(s) on the numerals of the model
ToInt(s) ==
    CASE s = "1" -> 1 [] s = "2" -> 2 [] s = "3" -> 3 [] s = "5" -> 5
      [] s = "10" -> 10 [] s = "80" -> 80

\* str.upper() on the protocol words of the model
Upper(s) ==
    CASE s = "tcp" -> "TCP" [] s = "udp" -> "UDP" [] s = "ip" -> "IP"
      [] s = "icmp" -> "ICMP" [] OTHER -> s

\* config.conversion_warnings.append(w)
AddWarning(st, w) == [st EXCEPT !.warnings = Append(@, w)]

\* config.rules.append(rule)
AddRule(st, rule) == [st EXCEPT !.config.rules = Append(@, rule)]

\* the exception leaves the parser
Raise(st) == [st EXCEPT !.raised = TRUE]

\* ------------------------------------------------------- Check Point parser

\* one row of CheckpointParser._parse_policy.  A row without a numeric
\* "No." is skipped; row.get("Action", "Drop").strip() raises AttributeError
\* on a short row, which the except clause turns into a warning.  The CSV of
\* the model has the columns No., Name, Action only, so source, destination
\* and service default to {"Any"}.
CheckpointPolicyRow(row, st) ==
    IF row.no = None \/ row.no = "" \/ ~IsDigit(row.no) THEN st
    ELSE IF row.action = None
    THEN AddWarning(st, Warning("Skipped malformed policy row", row, "error"))
    ELSE AddRule(st,
            MkRule(ToInt(row.no),
                   IF row.name = None \/ row.name = ""
                   THEN "Rule_" \o row.no ELSE row.name,
                   IF Lower(row.action) = "accept" THEN "allow" ELSE "deny",
                   {"Any"}, {"Any"}, {"Any"}))

\* CheckpointParser._parse_policy: the rows in the order of the file
RECURSIVE CheckpointParsePolicy(_, _, _)
CheckpointParsePolicy(rows, k, st) ==
    IF k > Len(rows) THEN st
    ELSE CheckpointParsePolicy(rows, k + 1, CheckpointPolicyRow(rows[k], st))

\* CheckpointCSVParser.parse_hosts into temp_config.addresses;
\* row.get('ipv4-address', '').strip() raises AttributeError on a short row
\* and nothing catches it
RECURSIVE ParseHosts(_, _, _)
ParseHosts(rows, k, temp) ==
    IF k > Len(rows) \/ temp.raised THEN temp
    ELSE IF rows[k].ip = None THEN [temp EXCEPT !.raised = TRUE]
    ELSE IF rows[k].name # "" /\ rows[k].ip # ""
    THEN ParseHosts(rows, k + 1,
            [temp EXCEPT !.addresses =
                @ \cup {MkAddress(rows[k].name, "host", rows[k].ip, "32")}])
    ELSE ParseHosts(rows, k + 1, temp)

\* a merge that adds the CSV addresses and removes nothing
MergeWithoutRemove(order, k, existing, merged) ==
    [merged EXCEPT !.addresses = @ \cup Range(order)]

\* the address merge of _parse_csv_objects: existing is the name -> object
\* dict built before the loop, order the iteration order of
\* temp_config.addresses; set.remove raises KeyError when the object the
\* dict remembers has already left config.addresses
RECURSIVE MergeAddresses(_, _, _, _)
MergeAddresses(order, k, existing, merged) ==
    IF k > Len(order) \/ merged.raised THEN merged
    ELSE IF \E a \in existing : a.name = order[k].name
    THEN IF (CHOOSE a \in existing : a.name = order[k].name) \in merged.addresses
         THEN MergeAddresses(order, k + 1, existing,
                [merged EXCEPT !.addresses =
                    (@ \ {CHOOSE a \in existing : a.name = order[k].name})
                    \cup {order[k]}])
         ELSE [merged EXCEPT !.raised = TRUE]
    ELSE MergeAddresses(order, k + 1, existing,
            [merged EXCEPT !.addresses = @ \cup {order[k]}])

\* temp_config.addresses after the CSV files have been read
TempAddresses(inp) == ParseHosts(inp.hosts, 1, [addresses |-> {}, raised |-> FALSE])

\* CheckpointParser.parse(objects_content, policy_content, csv_objects):
\* the objects database, then the CSV objects, then the policy.  inp.objects
\* stands for the addresses _parse_objects reads from the objects database;
\* order is the iteration order of temp_config.addresses.
CheckpointParse(inp, order) ==
    IF TempAddresses(inp).raised THEN Raise(StartState)
    ELSE IF MergeAddresses(order, 1, inp.objects,
                [addresses |-> inp.objects, raised |-> FALSE]).raised
    THEN Raise(StartState)
    ELSE CheckpointParsePolicy(inp.policy, 1,
            [StartState EXCEPT !.config.addresses =
                MergeAddresses(order, 1, inp.objects,
                    [addresses |-> inp.objects, raised |-> FALSE]).addresses])

\* -------------------------------------------------------- Cisco ASA parser

\* CiscoAsaParser._consume_address: how many leading tokens make the
\* address, 0 when the tokens do not start with one
ConsumedWords(tokens) ==
    IF tokens = <<>> THEN 0
    ELSE IF tokens[1] \in {"any", "any4"} THEN 1
    ELSE IF tokens[1] \in {"host", "object", "object-group"} /\ Len(tokens) >= 2 THEN 2
    ELSE 0

\* CiscoAsaParser._parse_address_part: the name the rule refers to
AddressPartName(part) ==
    IF part[1] \in {"any", "any4"} THEN "any"
    ELSE IF part[1] = "host" THEN "host_" \o part[2]
    ELSE part[2]

\* the host objects _parse_address_part adds for the parts of a rule
AddressPartObjects(addresses, part) ==
    IF part[1] = "host" /\ ~(\E a \in addresses : a.name = "host_" \o part[2])
    THEN addresses \cup {MkAddress("host_" \o part[2], "host", part[2], None)}
    ELSE addresses

\* the service name _parse_rule gives the rule and the Service it mints
AsaServiceName(proto, svc_words) ==
    IF svc_words # <<>> THEN Upper(proto) \o "_" \o JoinWords(svc_words, "-")
    ELSE IF Lower(proto) = "ip" THEN "IP" ELSE Upper(proto)

AsaServices(services, proto, svc_words) ==
    IF \E s \in services : s.name = AsaServiceName(proto, svc_words) THEN services
    ELSE services \cup
         {MkService(AsaServiceName(proto, svc_words),
                    IF svc_words = <<>> /\ Lower(proto) = "ip" THEN "ip" ELSE proto,
                    svc_words)}

\* acl_name.replace('_access_in', '').replace('_in', '') on the access-list
\* names of the model
InterfaceOfAcl(acl_name) ==
    CASE acl_name = "outside_in" -> "outside"
      [] acl_name = "inside_access_in" -> "inside"
      [] OTHER -> acl_name

\* the Rule of an access-list line whose action sits at parts[ext + 1], whose
\* protocol at parts[ext + 2], source at src (n_src words), destination after
ParsedRule(parts, ext, n_src, n_dst, seq_id) ==
    [MkRule(seq_id, parts[2] \o "-" \o ToStr(seq_id),
            IF Lower(parts[ext + 1]) = "permit" THEN "allow" ELSE "deny",
            {AddressPartName(SubSeq(parts, ext + 3, ext + 2 + n_src))},
            {AddressPartName(SubSeq(parts, ext + 3 + n_src, ext + 2 + n_src + n_dst))},
            {AsaServiceName(parts[ext + 2],
                            SubSeq(parts, ext + 3 + n_src + n_dst, Len(parts)))})
     EXCEPT !.source_interface = {InterfaceOfAcl(parts[2])}]

\* re.search(r'\(hitcnt=(\d+)\)', word) on the words of the model
IsHitCount(word) == word \in {"(hitcnt=5)"}

\* int(hit_count_match.group(1)) for the first hit-count of the line, 0 for a
\* line without one
HitCountOf(line) ==
    IF \E i \in DOMAIN line : IsHitCount(line[i]) THEN 5 ELSE 0

\* line.replace(hit_count_match.group(0), ''): the words that are left, and
\* whether the line now ends in the blank that stood before the hit-count
WithoutHitCount(line) ==
    [words |-> SelectSeq(line, LAMBDA w : ~IsHitCount(w)),
     blank_end |-> line # <<>> /\ IsHitCount(line[Len(line)])]

\* word.startswith("log") on the words of the model
StartsWithLog(word) == word \in {"log"}

\* _RE_CLEAN_RULE.sub('', line).strip().split(): one pass from the left.
\* "\s+log.*$" cuts the line at the first word (after the first) that starts
\* with log; else "\s+inactive$" cuts a last word inactive and
\* "\s+time-range \S+$" the last two words time-range NAME, each only if the
\* line ends right behind them.
CleanRule(words, blank_end) ==
    IF \E i \in 2..Len(words) : StartsWithLog(words[i])
    THEN SubSeq(words, 1,
                (CHOOSE i \in 2..Len(words) :
                    StartsWithLog(words[i])
                    /\ \A j \in 2..(i - 1) : ~StartsWithLog(words[j])) - 1)
    ELSE IF blank_end THEN words
    ELSE IF Len(words) >= 2 /\ words[Len(words)] = "inactive"
    THEN SubSeq(words, 1, Len(words) - 1)
    ELSE IF Len(words) >= 3 /\ words[Len(words) - 1] = "time-range"
    THEN SubSeq(words, 1, Len(words) - 2)
    ELSE words

\* _RE_RULE_TIME_RANGE.search(line): the word behind the first time-range,
\* None for a line without one
TimeRangeOf(line) ==
    IF \E i \in 1..(Len(line) - 1) : line[i] = "time-range"
    THEN line[(CHOOSE i \in 1..(Len(line) - 1) :
                  line[i] = "time-range" /\ \A j \in 1..(i - 1) : line[j] # "time-range") + 1]
    ELSE None

\* the fields _parse_rule takes from the whole line: enabled unless the line
\* ends with inactive, the time-range and the hit-count; log is never set
WithTails(rule, line) ==
    [rule EXCEPT !.enabled = (line[Len(line)] # "inactive"),
                 !.time_range = TimeRangeOf(line),
                 !.hit_count = HitCountOf(line)]

\* the body of _parse_rule from clean_line.split() on: parts are the words
\* of the cleaned line, line the words of the line as it was read.  Every
\* early return and the bare except leave the counter and the rule list as
\* they were.
ParseCleanRule(parts, line, seq_id, st) ==
    IF Len(parts) < 5 \/ ~(\E i \in DOMAIN parts : parts[i] = "extended")
    THEN [st |-> st, seq_id |-> seq_id]
    ELSE LET ext == CHOOSE i \in DOMAIN parts :
                        parts[i] = "extended" /\ \A j \in 1..(i - 1) : parts[j] # "extended"
             n_src == ConsumedWords(SubSeq(parts, ext + 3, Len(parts)))
             n_dst == ConsumedWords(SubSeq(parts, ext + 3 + n_src, Len(parts)))
         IN  IF Len(parts) < ext + 2 \/ n_src = 0 \/ n_dst = 0
             THEN [st |-> st, seq_id |-> seq_id]
             ELSE [st |-> [AddRule(st, WithTails(ParsedRule(parts, ext, n_src, n_dst,
                                                            seq_id), line))
                             EXCEPT !.config.addresses =
                                 AddressPartObjects(
                                     AddressPartObjects(@,
                                         SubSeq(parts, ext + 3, ext + 2 + n_src)),
                                     SubSeq(parts, ext + 3 + n_src,
                                            ext + 2 + n_src + n_dst)),
                                    !.config.services =
                                 AsaServices(@, parts[ext + 2],
                                     SubSeq(parts, ext + 3 + n_src + n_dst, Len(parts)))],
                   seq_id |-> seq_id + 1]

\* CiscoAsaParser._parse_rule on the words of one access-list line: the
\* parse state and the counter it returns
AsaParseRule(line, seq_id, st) ==
    ParseCleanRule(CleanRule(WithoutHitCount(line).words, WithoutHitCount(line).blank_end),
                   line, seq_id, st)

\* line.lower().startswith(STOP_TOKENS): the line ends an object block
IsStopLine(line) ==
    \/ Lower(line[1]) \in {"object", "object-group", "access-list", "hostname",
                            "time-range"}
    \/ Len(line) >= 2 /\ Lower(line[1]) \in {"interface", "route", "router", "nat"}
    \/ Len(line) >= 2 /\ line[1] = ":" /\ line[2] = "end"

\* BaseParser._mask_to_cidr on the masks of the model
MaskToCidr(mask) ==
    CASE mask = "255.255.255.0" -> "24"
      [] mask = "255.255.0.0" -> "16"
      [] OTHER -> "32"

\* the groups (.+?),(.+?) of "nat \((.+?),(.+?)\)" on the second word of a
\* nat line; <<>> when the word is no such pair
NatInterfaces(word) ==
    CASE word = "(inside,outside)" -> <<"inside", "outside">>
      [] word = "(dmz,outside)" -> <<"dmz", "outside">>
      [] OTHER -> <<>>

\* _RE_OBJ_NAT matches: nat (a,b) dynamic|static <mapped> ...
IsObjectNat(line) ==
    /\ Len(line) >= 4 /\ line[1] = "nat" /\ NatInterfaces(line[2]) # <<>>
    /\ line[3] \in {"dynamic", "static"}

\* the NatRule _parse_object_network builds for a nat line of the block of
\* the object called name
ObjectNatRule(name, line, nat_counter) ==
    [MkNatRule(nat_counter, "NAT_" \o name, {name},
               IF line[4] = "interface" THEN "dynamic-ip-and-port" ELSE line[4],
               {}, None,
               IF Len(line) >= 8 /\ line[5] = "service"
               THEN {line[6] \o "/" \o line[7]} ELSE NoneSet,
               IF Len(line) >= 8 /\ line[5] = "service"
               THEN line[6] \o "/" \o line[8] ELSE None)
     EXCEPT !.source_interface = {NatInterfaces(line[2])[1]},
            !.destination_interface = {NatInterfaces(line[2])[2]}]

\* the while loop of _parse_object_network from line i on: it ends at the
\* end of the text or at the first line that starts with a stop token, and
\* "nat " is one of the stop tokens
RECURSIVE ObjectNetworkBody(_, _, _, _, _)
ObjectNetworkBody(lines, i, name, nat_counter, st) ==
    IF i > Len(lines) THEN [i |-> i, nat_counter |-> nat_counter, st |-> st]
    ELSE IF lines[i] = <<>> THEN ObjectNetworkBody(lines, i + 1, name, nat_counter, st)
    ELSE IF IsStopLine(lines[i]) THEN [i |-> i, nat_counter |-> nat_counter, st |-> st]
    ELSE IF lines[i][1] = "host" /\ Len(lines[i]) >= 2
    THEN ObjectNetworkBody(lines, i + 1, name, nat_counter,
            [st EXCEPT !.config.addresses =
                @ \cup {MkAddress(name, "host", lines[i][2], None)}])
    ELSE IF lines[i][1] = "subnet" /\ Len(lines[i]) >= 3
    THEN ObjectNetworkBody(lines, i + 1, name, nat_counter,
            [st EXCEPT !.config.addresses =
                @ \cup {MkAddress(name, "network", lines[i][2],
                                  MaskToCidr(lines[i][3]))}])
    ELSE IF lines[i][1] = "range" /\ Len(lines[i]) >= 3
    THEN ObjectNetworkBody(lines, i + 1, name, nat_counter,
            [st EXCEPT !.config.addresses =
                @ \cup {MkAddress(name, "range", lines[i][2], lines[i][3])}])
    ELSE IF lines[i][1] = "fqdn" /\ Len(lines[i]) >= 2
    THEN ObjectNetworkBody(lines, i + 1, name, nat_counter,
            [st EXCEPT !.config.addresses =
                @ \cup {MkAddress(name, "fqdn", lines[i][2], None)}])
    ELSE IF IsObjectNat(lines[i])
    THEN ObjectNetworkBody(lines, i + 1, name, nat_counter + 1,
            [st EXCEPT !.config.nat_rules =
                Append(@, ObjectNatRule(name, lines[i], nat_counter))])
    ELSE ObjectNetworkBody(lines, i + 1, name, nat_counter, st)

\* CiscoAsaParser._parse_object_network on the block that starts at line
\* index: the index after the block, the NAT counter and the parse state
ParseObjectNetwork(lines, index, nat_counter, st) ==
    IF Len(lines[index]) < 3
    THEN [i |-> index + 1, nat_counter |-> nat_counter, st |-> st]
    ELSE ObjectNetworkBody(lines, index + 1, lines[index][3], nat_counter, st)

\* where "source <kind>" sits in a nat line, 0 when it does not occur
SourceAt(line, kind) ==
    IF \E p \in 3..(Len(line) - 1) : line[p] = "source" /\ line[p + 1] = kind
    THEN CHOOSE p \in 3..(Len(line) - 1) : line[p] = "source" /\ line[p + 1] = kind
    ELSE 0

\* _RE_MANUAL_TWICE_NAT matches:
\* source static <a> <b> destination static <c> <d>
IsTwiceNat(line) ==
    /\ SourceAt(line, "static") # 0
    /\ Len(line) >= SourceAt(line, "static") + 7
    /\ line[SourceAt(line, "static") + 4] = "destination"
    /\ line[SourceAt(line, "static") + 5] = "static"

\* _RE_MANUAL_STATIC_NAT matches: source static <a> <b>[ unidirectional]
\* at the end of the line
IsStaticNat(line) ==
    /\ SourceAt(line, "static") # 0
    /\ \/ Len(line) = SourceAt(line, "static") + 3
       \/ /\ Len(line) = SourceAt(line, "static") + 4
          /\ line[Len(line)] = "unidirectional"

\* _RE_MANUAL_DYNAMIC_NAT matches: source dynamic <a> <b>
IsDynamicNat(line) ==
    SourceAt(line, "dynamic") # 0 /\ Len(line) >= SourceAt(line, "dynamic") + 3

\* a NatRule of _parse_nat_rule_line: its interfaces and enabled flag set
ManualNat(line, src_intf, dst_intf, rule) ==
    [rule EXCEPT !.source_interface = {src_intf},
                 !.destination_interface = {dst_intf},
                 !.enabled = ~(\E k \in DOMAIN line : line[k] = "inactive")]

\* the NatRules _parse_nat_rule_line appends for a line, numbered from
\* nat_seq_counter: one for a twice NAT, one or two for a static NAT, one for
\* a dynamic PAT or NAT, none for a line no pattern matches
NatRulesOfLine(line, n) ==
    IF Len(line) < 2 \/ NatInterfaces(line[2]) = <<>> THEN <<>>
    ELSE IF IsTwiceNat(line)
    THEN <<ManualNat(line, NatInterfaces(line[2])[1], NatInterfaces(line[2])[2],
              MkNatRule(n, "TwiceNAT_" \o line[SourceAt(line, "static") + 2]
                               \o "_" \o line[SourceAt(line, "static") + 6],
                        {line[SourceAt(line, "static") + 2]},
                        line[SourceAt(line, "static") + 3],
                        {line[SourceAt(line, "static") + 6]},
                        line[SourceAt(line, "static") + 7], {}, None))>>
    ELSE IF IsStaticNat(line)
    THEN <<ManualNat(line, NatInterfaces(line[2])[1], NatInterfaces(line[2])[2],
              MkNatRule(n, "StaticNAT_" \o line[SourceAt(line, "static") + 2],
                        {line[SourceAt(line, "static") + 2]},
                        line[SourceAt(line, "static") + 3], {}, None, {}, None))>>
         \o (IF line[Len(line)] = "unidirectional"
                 /\ Len(line) = SourceAt(line, "static") + 4
             THEN <<>>
             ELSE <<ManualNat(line, NatInterfaces(line[2])[2],
                       NatInterfaces(line[2])[1],
                       MkNatRule(n + 1,
                           "StaticNAT_Reverse_" \o line[SourceAt(line, "static") + 2],
                           {}, None, {line[SourceAt(line, "static") + 3]},
                           line[SourceAt(line, "static") + 2], {}, None))>>)
    ELSE IF IsDynamicNat(line)
    THEN <<ManualNat(line, NatInterfaces(line[2])[1], NatInterfaces(line[2])[2],
              MkNatRule(n,
                  (IF line[SourceAt(line, "dynamic") + 3] = "interface"
                   THEN "DynamicPAT_" ELSE "DynamicNAT_")
                  \o line[SourceAt(line, "dynamic") + 2],
                  {line[SourceAt(line, "dynamic") + 2]},
                  IF line[SourceAt(line, "dynamic") + 3] = "interface"
                  THEN "dynamic-ip-and-port"
                  ELSE line[SourceAt(line, "dynamic") + 3],
                  {}, None, {}, None))>>
    ELSE <<>>

\* CiscoAsaParser._parse_nat_rule_line: the parse state and the counter
ParseNatRuleLine(line, nat_seq_counter, st) ==
    [st |-> [st EXCEPT !.config.nat_rules = @ \o NatRulesOfLine(line, nat_seq_counter)],
     nat_seq_counter |-> nat_seq_counter + Len(NatRulesOfLine(line, nat_seq_counter))]

\* the words that keep an unparsed line from being reported
AsaNoise == {"hostname", "domain-name", "names", "pager", "logging", "aaa", "ssh",
             "http", "console", "terminal", "crypto", "policy-map", "class-map",
             "service-policy"}

\* the loop of CiscoAsaParser.parse over the lines of the (single) context:
\* comments are skipped, object network blocks go to _parse_object_network,
\* access-list lines to _parse_rule with the rule counter, nat lines to
\* _parse_nat_rule_line with the NAT counter, any other line of the model is
\* reported as skipped
RECURSIVE AsaParseFrom(_, _, _, _, _)
AsaParseFrom(lines, i, rule_seq_counter, nat_seq_counter, st) ==
    IF i > Len(lines) THEN st
    ELSE IF lines[i] = <<>> \/ lines[i][1] = "!"
    THEN AsaParseFrom(lines, i + 1, rule_seq_counter, nat_seq_counter, st)
    ELSE IF Len(lines[i]) >= 2 /\ Lower(lines[i][1]) = "object"
            /\ Lower(lines[i][2]) = "network"
    THEN AsaParseFrom(lines,
            ParseObjectNetwork(lines, i, nat_seq_counter, st).i,
            rule_seq_counter,
            ParseObjectNetwork(lines, i, nat_seq_counter, st).nat_counter,
            ParseObjectNetwork(lines, i, nat_seq_counter, st).st)
    ELSE IF Lower(lines[i][1]) = "access-list"
    THEN AsaParseFrom(lines, i + 1,
            AsaParseRule(lines[i], rule_seq_counter, st).seq_id,
            nat_seq_counter,
            AsaParseRule(lines[i], rule_seq_counter, st).st)
    ELSE IF Len(lines[i]) >= 2 /\ Lower(lines[i][1]) = "nat"
    THEN AsaParseFrom(lines, i + 1, rule_seq_counter,
            ParseNatRuleLine(lines[i], nat_seq_counter, st).nat_seq_counter,
            ParseNatRuleLine(lines[i], nat_seq_counter, st).st)
    ELSE IF \E w \in Range(lines[i]) : Lower(w) \in AsaNoise
    THEN AsaParseFrom(lines, i + 1, rule_seq_counter, nat_seq_counter, st)
    ELSE AsaParseFrom(lines, i + 1, rule_seq_counter, nat_seq_counter,
            AddWarning(st, Warning("Skipped unparsed line", lines[i], "info")))

\* CiscoAsaParser.parse
CiscoAsaParse(lines) == AsaParseFrom(lines, 1, 1, 1, StartState)

\* --------------------------------------------------------- Fortinet parser

\* line.startswith("edit ") and line.startswith("next")
IsEdit(line) == Len(line) >= 2 /\ line[1] = "edit"

IsNext(line) == line[1] = "next"

\* line.startswith("config ")
IsConfig(line) == Len(line) >= 2 /\ line[1] = "config"

\* FortinetParser._get_edit_value: what follows the first word
GetEditValue(line) == IF Len(line) < 2 THEN "" ELSE JoinWords(Tail(line), " ")

\* FortinetParser._get_set_value: what follows the second word
GetSetValue(line) ==
    IF Len(line) < 3 THEN "" ELSE JoinWords(SubSeq(line, 3, Len(line)), " ")

\* the lines of an entry after its first that start with "set <key>"
SetLines(entry, key) ==
    SelectSeq(Tail(entry), LAMBDA l : Len(l) >= 2 /\ l[1] = "set" /\ l[2] = key)

\* the value the last "set <key>" line of an entry leaves, else the default
LastSetValue(entry, key, default) ==
    IF SetLines(entry, key) = <<>> THEN default
    ELSE GetSetValue(SetLines(entry, key)[Len(SetLines(entry, key))])

\* _extract_multi_values of every "set <key>" line of an entry, collected
MultiValues(entry, key) ==
    UNION {Range(SubSeq(SetLines(entry, key)[k], 3, Len(SetLines(entry, key)[k]))) :
            k \in DOMAIN SetLines(entry, key)}

\* S or {default}: the default a policy entry gets for an empty set
OrDefault(S, default) == IF S = {} THEN {default} ELSE S

\* the Rule of FortinetParser._parse_policy_entry
PolicyEntryRule(entry, sequence_id) ==
    [MkRule(sequence_id,
            LastSetValue(entry, "name", "Rule_" \o GetEditValue(entry[1])),
            IF LastSetValue(entry, "action", "deny") = "accept" THEN "allow" ELSE "deny",
            OrDefault(MultiValues(entry, "srcaddr"), "all"),
            OrDefault(MultiValues(entry, "dstaddr"), "all"),
            OrDefault(MultiValues(entry, "service"), "ALL"))
     EXCEPT !.enabled = (LastSetValue(entry, "status", "enable") = "enable"),
            !.source_interface = MultiValues(entry, "srcintf"),
            !.destination_interface = MultiValues(entry, "dstintf")]

\* the NatRule _parse_policy_entry adds for "set nat enable" with a poolname
PolicyEntryNat(entry, rule) ==
    IF (\E k \in DOMAIN SetLines(entry, "nat") :
            Len(SetLines(entry, "nat")[k]) >= 3 /\ SetLines(entry, "nat")[k][3] = "enable")
       /\ LastSetValue(entry, "poolname", "") # ""
    THEN <<[MkNatRule(rule.sequence_id, "NAT_" \o rule.name, rule.source,
                      LastSetValue(entry, "poolname", ""), rule.destination,
                      None, rule.service, None)
            EXCEPT !.source_interface = rule.source_interface,
                   !.destination_interface = rule.destination_interface,
                   !.enabled = rule.enabled]>>
    ELSE <<>>

\* FortinetParser._parse_policy_entry
ParsePolicyEntry(entry, sequence_id, st) ==
    [AddRule(st, PolicyEntryRule(entry, sequence_id))
     EXCEPT !.config.nat_rules =
                @ \o PolicyEntryNat(entry, PolicyEntryRule(entry, sequence_id))]

\* FortinetParser._parse_interface_entry; int() of "set vlanid" raises
\* ValueError on a value that is no number and nothing catches it
ParseInterfaceEntry(entry, st) ==
    IF GetEditValue(entry[1]) = "" THEN st
    ELSE IF \E k \in DOMAIN SetLines(entry, "vlanid") :
                ~IsDigit(GetSetValue(SetLines(entry, "vlanid")[k]))
    THEN Raise(st)
    ELSE [st EXCEPT !.config.interfaces = @ \cup
            {[name |-> GetEditValue(entry[1]), zone |-> None,
              description |-> LastSetValue(entry, "alias", None),
              vlan_id |-> IF SetLines(entry, "vlanid") = <<>> THEN None
                          ELSE ToInt(LastSetValue(entry, "vlanid", "1"))]}]

\* FortinetParser._clean_service_name on the names of the model: a leading
\* TCP/UDP or UDP/TCP with its separator goes, slashes go, leading "_-. " go
CleanServiceName(name) ==
    CASE name = "TCP/UDP_DNS" -> "DNS"
      [] OTHER -> name

\* the port string of a portrange value: "eq p", or "range a b" for "a-b"
PortStr(value) ==
    CASE value = "1000-2000" -> <<"range", "1000", "2000">>
      [] OTHER -> <<"eq", value>>

\* a portrange value that counts as set: neither None nor the empty string
IsSet(value) == value # None /\ value # ""

\* line.startswith("set protocol ICMP") for some line of the entry
SetsIcmp(entry) ==
    \E k \in DOMAIN SetLines(entry, "protocol") :
        Len(SetLines(entry, "protocol")[k]) >= 3 /\ SetLines(entry, "protocol")[k][3] = "ICMP"

\* self.split_services_map[name] = [new_name]
MapPut(map, name, new_name) ==
    [n \in DOMAIN map \cup {name} |-> IF n = name THEN new_name ELSE map[n]]

\* _parse_service_entry for an entry with both port ranges: two services, the
\* group of the two, and the original name mapped to the group
SplitService(name, base, tcp_port, udp_port, st) ==
    [st EXCEPT
        !.config.services = @ \cup {MkService("TCP-" \o base, "tcp", PortStr(tcp_port)),
                                    MkService("UDP-" \o base, "udp", PortStr(udp_port))},
        !.config.service_groups =
            @ \cup {MkServiceGroup("TCP-UDP_" \o base, {"TCP-" \o base, "UDP-" \o base})},
        !.split_services_map = MapPut(@, name, "TCP-UDP_" \o base)]

\* the name _parse_service_entry gives a service of one protocol: a name of
\* digits only gets the protocol in front
FinalName(base, tcp_port, udp_port, icmp) ==
    IF ~IsDigit(base) THEN base
    ELSE IF IsSet(tcp_port) THEN "TCP-" \o base
    ELSE IF IsSet(udp_port) THEN "UDP-" \o base
    ELSE IF icmp THEN "ICMP-" \o base
    ELSE base

\* _parse_service_entry for an entry of at most one port range
SingleService(name, final_name, tcp_port, udp_port, icmp, st) ==
    [st EXCEPT
        !.config.services =
            IF IsSet(tcp_port) THEN @ \cup {MkService(final_name, "tcp", PortStr(tcp_port))}
            ELSE IF IsSet(udp_port)
            THEN @ \cup {MkService(final_name, "udp", PortStr(udp_port))}
            ELSE IF icmp THEN @ \cup {MkService(final_name, "icmp", <<>>)}
            ELSE @,
        !.split_services_map =
            IF final_name # name THEN MapPut(@, name, final_name) ELSE @]

\* FortinetParser._parse_service_entry
ParseServiceEntry(entry, st) ==
    IF IsSet(LastSetValue(entry, "tcp-portrange", None))
       /\ IsSet(LastSetValue(entry, "udp-portrange", None))
    THEN SplitService(GetEditValue(entry[1]), CleanServiceName(GetEditValue(entry[1])),
                      LastSetValue(entry, "tcp-portrange", None),
                      LastSetValue(entry, "udp-portrange", None), st)
    ELSE SingleService(GetEditValue(entry[1]),
                       FinalName(CleanServiceName(GetEditValue(entry[1])),
                                 LastSetValue(entry, "tcp-portrange", None),
                                 LastSetValue(entry, "udp-portrange", None),
                                 SetsIcmp(entry)),
                       LastSetValue(entry, "tcp-portrange", None),
                       LastSetValue(entry, "udp-portrange", None),
                       SetsIcmp(entry), st)

\* FortinetParser._parse_service_group_entry
ParseServiceGroupEntry(entry, st) ==
    IF GetEditValue(entry[1]) # "" /\ MultiValues(entry, "member") # {}
    THEN [st EXCEPT !.config.service_groups =
            @ \cup {MkServiceGroup(GetEditValue(entry[1]), MultiValues(entry, "member"))}]
    ELSE st

\* a reference pass that leaves every name as it is
Unrenamed(names, map) == names

\* the names of a set with every split service replaced by its new name
Renamed(names, map) == {IF n \in DOMAIN map THEN map[n] ELSE n : n \in names}

\* FortinetParser._update_references: the second pass over the members of the
\* service groups, the services of the rules and of the NAT rules
UpdateReferences(st) ==
    [st EXCEPT
        !.config.service_groups =
            {[g EXCEPT !.members = Renamed(@, st.split_services_map)] : g \in @},
        !.config.rules =
            [k \in DOMAIN @ |-> [@[k] EXCEPT !.service = Renamed(@, st.split_services_map)]],
        !.config.nat_rules =
            [k \in DOMAIN @ |->
                [@[k] EXCEPT !.original_service = Renamed(@, st.split_services_map)]]]

\* process_entry of _parse_block: the entry parser on the lines collected
\* since the last edit/next, and the counter stepped if the block has one
ProcessEntry(kind, entry, counter, st) ==
    IF entry = <<>> THEN [st |-> st, counter |-> counter]
    ELSE IF kind = "policy"
    THEN [st |-> ParsePolicyEntry(entry, counter, st), counter |-> counter + 1]
    ELSE IF kind = "service"
    THEN [st |-> ParseServiceEntry(entry, st), counter |-> counter]
    ELSE IF kind = "service group"
    THEN [st |-> ParseServiceGroupEntry(entry, st), counter |-> counter]
    ELSE [st |-> ParseInterfaceEntry(entry, st), counter |-> counter]

\* FortinetParser._parse_block from line i on: the first "end" closes the
\* block; the end of the text closes it too
RECURSIVE ParseBlock(_, _, _, _, _, _)
ParseBlock(lines, i, kind, entry, counter, st) ==
    IF st.raised THEN [i |-> Len(lines) + 1, counter |-> counter, st |-> st]
    ELSE IF i > Len(lines)
    THEN [i |-> i, counter |-> ProcessEntry(kind, entry, counter, st).counter,
          st |-> ProcessEntry(kind, entry, counter, st).st]
    ELSE IF lines[i] = <<"end">>
    THEN [i |-> i + 1, counter |-> ProcessEntry(kind, entry, counter, st).counter,
          st |-> ProcessEntry(kind, entry, counter, st).st]
    ELSE IF IsEdit(lines[i])
    THEN ParseBlock(lines, i + 1, kind, <<lines[i]>>,
                    ProcessEntry(kind, entry, counter, st).counter,
                    ProcessEntry(kind, entry, counter, st).st)
    ELSE IF IsNext(lines[i])
    THEN ParseBlock(lines, i + 1, kind, <<>>,
                    ProcessEntry(kind, entry, counter, st).counter,
                    ProcessEntry(kind, entry, counter, st).st)
    ELSE ParseBlock(lines, i + 1, kind, Append(entry, lines[i]), counter, st)

\* the loop of parse over an unsupported config block: the index after the
\* block and whether its own "end" was found
RECURSIVE SkipBlock(_, _, _)
SkipBlock(lines, i, depth) ==
    IF depth = 0 THEN [i |-> i, closed |-> TRUE]
    ELSE IF i > Len(lines) THEN [i |-> i, closed |-> FALSE]
    ELSE IF IsConfig(lines[i]) THEN SkipBlock(lines, i + 1, depth + 1)
    ELSE IF lines[i] = <<"end">> THEN SkipBlock(lines, i + 1, depth - 1)
    ELSE SkipBlock(lines, i + 1, depth)

\* the warning parse records for an unsupported block that starts at line i
BlockWarning(lines, i, skipped) ==
    [category |-> "Parser", message |-> "Skipped unsupported config block",
     original_line |-> lines[i], severity |-> "info",
     details |-> SubSeq(lines, i + 1,
                        IF skipped.closed THEN skipped.i - 2 ELSE skipped.i - 1)]

\* the config blocks parse skips without a warning
IgnoredBlocks == {"system", "log", "user", "vpn", "ips", "application"}

\* the while loop of FortinetParser.parse from line i on
RECURSIVE FortinetParseFrom(_, _, _, _)
FortinetParseFrom(lines, i, policy_seq_counter, st) ==
    IF st.raised \/ i > Len(lines) THEN st
    ELSE IF lines[i] = <<"config", "firewall", "policy">>
    THEN FortinetParseFrom(lines,
            ParseBlock(lines, i + 1, "policy", <<>>, policy_seq_counter, st).i,
            ParseBlock(lines, i + 1, "policy", <<>>, policy_seq_counter, st).counter,
            ParseBlock(lines, i + 1, "policy", <<>>, policy_seq_counter, st).st)
    ELSE IF lines[i] = <<"config", "firewall", "service", "custom">>
    THEN FortinetParseFrom(lines,
            ParseBlock(lines, i + 1, "service", <<>>, 0, st).i,
            policy_seq_counter,
            ParseBlock(lines, i + 1, "service", <<>>, 0, st).st)
    ELSE IF lines[i] = <<"config", "firewall", "service", "group">>
    THEN FortinetParseFrom(lines,
            ParseBlock(lines, i + 1, "service group", <<>>, 0, st).i,
            policy_seq_counter,
            ParseBlock(lines, i + 1, "service group", <<>>, 0, st).st)
    ELSE IF lines[i] = <<"config", "system", "interface">>
    THEN FortinetParseFrom(lines,
            ParseBlock(lines, i + 1, "interface", <<>>, 0, st).i,
            policy_seq_counter,
            ParseBlock(lines, i + 1, "interface", <<>>, 0, st).st)
    ELSE IF IsConfig(lines[i])
    THEN FortinetParseFrom(lines, SkipBlock(lines, i + 1, 1).i, policy_seq_counter,
            IF lines[i][2] \in IgnoredBlocks THEN st
            ELSE AddWarning(st, BlockWarning(lines, i, SkipBlock(lines, i + 1, 1))))
    ELSE FortinetParseFrom(lines, i + 1, policy_seq_counter, st)

\* the parse state a Fortinet parse starts from: the empty IR and the empty
\* split_services_map
FortinetStart ==
    [config |-> EmptyConfig, warnings |-> <<>>, raised |-> FALSE,
     split_services_map |-> <<>>]

\* FortinetParser.parse: the loop over the lines, then the reference pass.
\* The texts of the model hold service, service-group, policy and interface
\* blocks and unsupported blocks; no entry sets srcintf or dstintf and no
\* text has a zone block, so the zone pass leaves the IR as it is.
FortinetParse(lines) == UpdateReferences(FortinetParseFrom(lines, 1, 1, FortinetStart))

\* -------------------------------------------------------- Palo Alto parser
\* The value of an address line is kept as its words with the separators
\* "/" and "-" as words of their own: 10.0.0.0/24 is <<"10.0.0.0", "/", "24">>.

\* value.split(sep)
RECURSIVE Split(_, _)
Split(tokens, sep) ==
    IF ~(\E k \in DOMAIN tokens : tokens[k] = sep) THEN <<JoinWords(tokens, "")>>
    ELSE <<JoinWords(SubSeq(tokens, 1,
                (CHOOSE k \in DOMAIN tokens :
                    tokens[k] = sep /\ \A j \in 1..(k - 1) : tokens[j] # sep) - 1), "")>>
         \o Split(SubSeq(tokens,
                (CHOOSE k \in DOMAIN tokens :
                    tokens[k] = sep /\ \A j \in 1..(k - 1) : tokens[j] # sep) + 1,
                Len(tokens)), sep)

\* _RE_ADDRESS matches: set address <name> ip-netmask|ip-range|fqdn <value>
IsAddressLine(line) ==
    /\ Len(line) >= 5 /\ line[1] = "set" /\ line[2] = "address"
    /\ line[4] \in {"ip-netmask", "ip-range", "fqdn"}

\* _RE_SEC_RULE matches: set rulebase security rules <name> <key> <value>
IsRuleLine(line) ==
    /\ Len(line) >= 7
    /\ SubSeq(line, 1, 4) = <<"set", "rulebase", "security", "rules">>

\* PaloAltoSetParser._parse_address on (name, type, value): the two-target
\* unpacking of value.split('/') and value.split('-') raises ValueError when
\* the value holds the separator more than once
ParseAddress(name, addr_type, value, st) ==
    IF addr_type = "ip-netmask"
    THEN IF \E k \in DOMAIN value : value[k] = "/"
         THEN IF Len(Split(value, "/")) # 2 THEN Raise(st)
              ELSE IF Split(value, "/")[2] = "32"
              THEN [st EXCEPT !.config.addresses = @ \cup
                      {MkAddress(name, "host", Split(value, "/")[1], None)}]
              ELSE [st EXCEPT !.config.addresses = @ \cup
                      {MkAddress(name, "network", Split(value, "/")[1],
                                 Split(value, "/")[2])}]
         ELSE [st EXCEPT !.config.addresses = @ \cup
                 {MkAddress(name, "host", JoinWords(value, ""), None)}]
    ELSE IF addr_type = "ip-range"
    THEN IF \E k \in DOMAIN value : value[k] = "-"
         THEN IF Len(Split(value, "-")) # 2 THEN Raise(st)
              ELSE [st EXCEPT !.config.addresses = @ \cup
                      {MkAddress(name, "range", Split(value, "-")[1],
                                 Split(value, "-")[2])}]
         ELSE st
    ELSE [st EXCEPT !.config.addresses = @ \cup
            {MkAddress(name, "fqdn", JoinWords(value, ""), None)}]

\* the entry rules_data gets for a rule name it has not seen
NewRuleData(name) ==
    [name |-> name, action |-> "deny", source |-> {"any"}, destination |-> {"any"},
     service |-> {}, enabled |-> TRUE]

\* the members of a value such as [ a b ]
Members(words) == Range(words) \ {"[", "]"}

\* PaloAltoSetParser._parse_rule_line on one entry of rules_data
UpdateRuleData(data, key, words) ==
    CASE key = "source" -> [data EXCEPT !.source = Members(words)]
      [] key = "destination" -> [data EXCEPT !.destination = Members(words)]
      [] key = "service" -> [data EXCEPT !.service = @ \cup Members(words)]
      [] key = "action" -> [data EXCEPT !.action = JoinWords(words, " ")]
      [] key = "disabled" /\ words = <<"yes">> -> [data EXCEPT !.enabled = FALSE]
      [] OTHER -> data

\* rules_data after one more security-rule line: a dict keeps its keys in
\* the order of their first insertion
ParseRuleLine(rules_data, line) ==
    IF \E k \in DOMAIN rules_data : rules_data[k].name = line[5]
    THEN [k \in DOMAIN rules_data |->
            IF rules_data[k].name = line[5]
            THEN UpdateRuleData(rules_data[k], line[6], SubSeq(line, 7, Len(line)))
            ELSE rules_data[k]]
    ELSE Append(rules_data,
                UpdateRuleData(NewRuleData(line[5]), line[6], SubSeq(line, 7, Len(line))))

\* the lines parse does not report as unparsed
PaloAltoNoise == {"cli", "mgt-config", "deviceconfig", "shared"}

\* the loop of PaloAltoSetParser.parse over the lines
RECURSIVE PaloAltoParseFrom(_, _, _, _)
PaloAltoParseFrom(lines, i, rules_data, st) ==
    IF st.raised \/ i > Len(lines) THEN [st |-> st, rules_data |-> rules_data]
    ELSE IF IsAddressLine(lines[i])
    THEN PaloAltoParseFrom(lines, i + 1, rules_data,
            ParseAddress(lines[i][3], lines[i][4],
                         SubSeq(lines[i], 5, Len(lines[i])), st))
    ELSE IF IsRuleLine(lines[i])
    THEN PaloAltoParseFrom(lines, i + 1, ParseRuleLine(rules_data, lines[i]), st)
    ELSE IF /\ Len(lines[i]) >= 2 /\ lines[i][1] = "set"
            /\ \/ lines[i][2] \in PaloAltoNoise
               \/ (Len(lines[i]) >= 3 /\ SubSeq(lines[i], 2, 3) = <<"network", "profiles">>)
    THEN PaloAltoParseFrom(lines, i + 1, rules_data, st)
    ELSE PaloAltoParseFrom(lines, i + 1, rules_data,
            AddWarning(st, Warning("Skipped unparsed line", lines[i], "info")))

\* PaloAltoSetParser._create_rule_objects: one Rule per entry of rules_data,
\* numbered from 1 in the order of the dict
CreateRuleObjects(rules_data) ==
    [k \in DOMAIN rules_data |->
        [MkRule(k, rules_data[k].name,
                IF rules_data[k].action = "allow" THEN "allow" ELSE "deny",
                rules_data[k].source, rules_data[k].destination,
                rules_data[k].service)
         EXCEPT !.enabled = rules_data[k].enabled,
                !.source_interface = {"any"}, !.destination_interface = {"any"}]]

\* PaloAltoSetParser.parse
PaloAltoParse(lines) ==
    IF PaloAltoParseFrom(lines, 1, <<>>, StartState).st.raised
    THEN Raise(StartState)
    ELSE [PaloAltoParseFrom(lines, 1, <<>>, StartState).st
          EXCEPT !.config.rules =
              CreateRuleObjects(PaloAltoParseFrom(lines, 1, <<>>, StartState).rules_data)]

\* ---------------------------------------------- the parse calls
\* ParserService.parse_config picks the parser by the vendor label, calls its
\* parse and sorts the two rule lists; a parser's parse can also be called by
\* itself.

\* list.sort(key=lambda r: r.sequence_id): r put behind the last element of
\* a sorted list whose sequence-id is not larger (the sort is stable)
InsertBySequence(sorted, r) ==
    SelectSeq(sorted, LAMBDA x : x.sequence_id <= r.sequence_id)
    \o <<r>>
    \o SelectSeq(sorted, LAMBDA x : x.sequence_id > r.sequence_id)

RECURSIVE SortBySequence(_, _, _)
SortBySequence(rules, k, sorted) ==
    IF k > Len(rules) THEN sorted
    ELSE SortBySequence(rules, k + 1, InsertBySequence(sorted, rules[k]))

\* the parse states parse can end in on an input (one per iteration order
\* of a set the parser walks)
ParseResults(inp) ==
    CASE inp.vendor = "cisco_asa" -> {CiscoAsaParse(inp.lines)}
      [] inp.vendor = "fortinet" -> {FortinetParse(inp.lines)}
      [] inp.vendor = "palo_alto" -> {PaloAltoParse(inp.lines)}
      [] inp.vendor = "checkpoint" ->
            {CheckpointParse(inp, order) :
                order \in Orderings(TempAddresses(inp).addresses)}

\* the caller's view after parse ended in parse state st
Parsed(st, cfg) ==
    /\ status' = IF st.raised THEN "raised" ELSE "returned"
    /\ config' = IF st.raised THEN config ELSE cfg
    /\ warnings' = IF st.raised THEN warnings ELSE st.warnings
    /\ UNCHANGED <<report, history, input, options>>

\* CiscoAsaParser().parse(content)
ParseCiscoAsa ==
    /\ pc = "start" /\ input.vendor = "cisco_asa"
    /\ \E st \in ParseResults(input) : Parsed(st, st.config)
    /\ pc' = "parsed"

\* FortinetParser().parse(content)
ParseFortinet ==
    /\ pc = "start" /\ input.vendor = "fortinet"
    /\ \E st \in ParseResults(input) : Parsed(st, st.config)
    /\ pc' = "parsed"

\* PaloAltoSetParser().parse(content)
ParsePaloAlto ==
    /\ pc = "start" /\ input.vendor = "palo_alto"
    /\ \E st \in ParseResults(input) : Parsed(st, st.config)
    /\ pc' = "parsed"

\* CheckpointParser().parse(objects_content, policy_content, csv_objects)
ParseCheckpoint ==
    /\ pc = "start" /\ input.vendor = "checkpoint"
    /\ \E st \in ParseResults(input) : Parsed(st, st.config)
    /\ pc' = "parsed"

\* ParserService.parse_config(source_vendor, files): the parser's parse,
\* then both rule lists sorted by sequence-id
ParseConfig ==
    /\ pc = "start"
    /\ \E st \in ParseResults(input) :
          Parsed(st, [st.config EXCEPT
                        !.rules = SortBySequence(@, 1, <<>>),
                        !.nat_rules = SortBySequence(@, 1, <<>>)])
    /\ pc' = "sorted"

\* ---- the input texts

\* every sequence of at most n members of S
SeqsUpTo(S, n) == UNION {[1..m -> S] : m \in 0..n}

\* access-list outside_in extended permit ip any any
AclPermitIpAnyAny ==
    <<"access-list", "outside_in", "extended", "permit", "ip", "any", "any">>

\* access-list outside_in extended permit tcp host 1.2.3.4 host 5.6.7.8 eq 80
AclPermitTcpHosts ==
    <<"access-list", "outside_in", "extended", "permit", "tcp", "host", "1.2.3.4",
      "host", "5.6.7.8", "eq", "80">>

\* what may stand behind the service of an access-list line
AclTails ==
    {<<"log">>, <<"inactive">>, <<"time-range", "TR">>, <<"(hitcnt=5)">>,
     <<"log", "inactive">>, <<"time-range", "TR", "inactive">>,
     <<"inactive", "(hitcnt=5)">>}

AsaLineChoices ==
    {AclPermitIpAnyAny,
     AclPermitTcpHosts,
     <<"access-list", "outside_in", "extended", "permit", "tcp">>,
     <<"!">>,
     <<"hostname", "fw">>,
     <<"banner", "motd">>,
     <<"nat", "(inside,outside)", "source", "static", "A", "B">>,
     <<"nat", "(inside,outside)", "source", "static", "A", "B", "unidirectional">>,
     <<"nat", "(inside,outside)", "source", "static", "A", "B",
       "destination", "static", "C", "D">>,
     <<"nat", "(dmz,outside)", "source", "dynamic", "A", "interface">>}
    \cup {AclPermitTcpHosts \o tail : tail \in AclTails}

\* object network INSIDE_NET / subnet 10.0.0.0 255.255.255.0 /
\* nat (inside,outside) dynamic interface
ObjectNatBlock ==
    <<<<"object", "network", "INSIDE_NET">>,
      <<"subnet", "10.0.0.0", "255.255.255.0">>,
      <<"nat", "(inside,outside)", "dynamic", "interface">>>>

\* the pieces an ASA text of the model is made of: single lines and the
\* object block
AsaEntryChoices == {<<line>> : line \in AsaLineChoices} \cup {ObjectNatBlock}

PolicyEntryChoices ==
    {<<<<"edit", "1">>, <<"set", "action", "accept">>, <<"set", "srcaddr", "a">>,
       <<"next">>>>,
     <<<<"edit", "5">>, <<"set", "name", "p5">>, <<"set", "nat", "enable">>,
       <<"set", "poolname", "pool1">>, <<"next">>>>,
     <<<<"edit", "7">>, <<"set", "service", "DNS-ALT", "TCP/UDP_DNS">>,
       <<"set", "nat", "enable">>, <<"set", "poolname", "pool1">>, <<"next">>>>,
     <<<<"edit", "8">>, <<"set", "action", "accept">>, <<"set", "nat", "enable">>,
       <<"next">>>>,
     <<<<"edit", "9">>, <<"set", "action", "accept">>,
       <<"config", "identity-based-policy">>, <<"edit", "1">>,
       <<"set", "schedule", "always">>, <<"next">>, <<"end">>, <<"next">>>>}

\* an interface block whose one entry sets the given vlanid
InterfaceBlock(vlanid) ==
    <<<<"config", "system", "interface">>, <<"edit", "port1">>,
      <<"set", "vlanid", vlanid>>, <<"next">>, <<"end">>>>

FortinetTails ==
    {<<>>, InterfaceBlock("10"), InterfaceBlock("abc"),
     <<<<"config", "firewall", "shaper">>, <<"edit", "s1">>, <<"next">>, <<"end">>>>,
     <<<<"config", "log", "setting">>, <<"set", "status", "enable">>, <<"end">>>>}

\* a policy block of the given entries, with or without its closing end,
\* and what follows it
FortinetTexts ==
    {<<<<"config", "firewall", "policy">>>>
        \o Written(entries, 1)
        \o (IF closed THEN <<<<"end">>>> ELSE <<>>)
        \o tail :
        entries \in SeqsUpTo(PolicyEntryChoices, MaxEntries),
        closed \in BOOLEAN, tail \in FortinetTails}

\* the custom service entries of the model: two with both port ranges (one
\* of them with a name that _clean_service_name shortens) and one with a
\* name of digits
ServiceEntryChoices ==
    {<<<<"edit", "DNS-ALT">>, <<"set", "tcp-portrange", "5353">>,
       <<"set", "udp-portrange", "5353">>, <<"next">>>>,
     <<<<"edit", "TCP/UDP_DNS">>, <<"set", "tcp-portrange", "53">>,
       <<"set", "udp-portrange", "1000-2000">>, <<"next">>>>,
     <<<<"edit", "80">>, <<"set", "tcp-portrange", "80">>, <<"next">>>>}

\* the most custom service entries of a text
MaxServiceEntries == 1

\* a service group whose members name the custom services
ServiceGroupBlock ==
    <<<<"config", "firewall", "service", "group">>, <<"edit", "grp">>,
      <<"set", "member", "DNS-ALT", "TCP/UDP_DNS", "HTTP">>, <<"next">>, <<"end">>>>

\* a custom service block, with the service group block before it, after it
\* or not at all
ServiceParts ==
    {(IF place = "before" THEN ServiceGroupBlock ELSE <<>>)
        \o <<<<"config", "firewall", "service", "custom">>>>
        \o Written(entries, 1) \o <<<<"end">>>>
        \o (IF place = "after" THEN ServiceGroupBlock ELSE <<>>) :
        entries \in SeqsUpTo(ServiceEntryChoices, MaxServiceEntries) \ {<<>>},
        place \in {"none", "before", "after"}}

\* a closed policy block with the service blocks before it or after it
FortinetServiceTexts ==
    {IF first THEN part \o policies ELSE policies \o part :
        part \in ServiceParts, first \in BOOLEAN,
        policies \in {<<<<"config", "firewall", "policy">>>>
                         \o Written(entries, 1) \o <<<<"end">>>> :
                      entries \in SeqsUpTo(PolicyEntryChoices, MaxEntries)}}

PaloAltoLineChoices ==
    {<<"set", "address", "h1", "ip-netmask", "10.0.0.1", "/", "32">>,
     <<"set", "address", "n1", "ip-netmask", "10.0.0.0", "/", "24", "/", "1">>,
     <<"set", "rulebase", "security", "rules", "r1", "action", "allow">>,
     <<"set", "rulebase", "security", "rules", "r2", "source", "[", "a", "]">>,
     <<"set", "foo">>}

\* a data row of the policy CSV (columns No., Name, Action)
PolicyRow(no, name, action) == [no |-> no, name |-> name, action |-> action]

PolicyRowChoices ==
    {PolicyRow("1", "r1", "Accept"), PolicyRow("2", "r2", "Drop"),
     PolicyRow("", "Section", ""), PolicyRow("3", None, None)}

\* a data row of the add-host CSV (columns name, ipv4-address)
HostRow(name, ip) == [name |-> name, ip |-> ip]

HostRowsChoices ==
    {<<>>, <<HostRow("h1", "10.0.0.6")>>,
     <<HostRow("h1", "10.0.0.6"), HostRow("h1", "10.0.0.7")>>,
     <<HostRow("h1", "10.0.0.5"), HostRow("h1", "10.0.0.6")>>,
     <<HostRow("h2", None)>>}

\* the addresses of the objects database: none, or the plain host h1 (a host
\* of the database has no mask)
ObjectsChoices == {{}, {MkAddress("h1", "host", "10.0.0.5", None)}}

ParserInputs ==
    {[vendor |-> "cisco_asa", lines |-> Written(e, 1)] :
        e \in SeqsUpTo(AsaEntryChoices, MaxEntries)}
    \cup {[vendor |-> "fortinet", lines |-> l] :
            l \in FortinetTexts \cup FortinetServiceTexts}
    \cup {[vendor |-> "palo_alto", lines |-> l] :
            l \in SeqsUpTo(PaloAltoLineChoices, MaxEntries)}
    \cup {[vendor |-> "checkpoint", policy |-> p, hosts |-> h, objects |-> o] :
            p \in SeqsUpTo(PolicyRowChoices, MaxEntries), h \in HostRowsChoices,
            o \in ObjectsChoices}

ParserInit ==
    /\ input \in ParserInputs
    /\ config = EmptyConfig
    /\ pc = "start"
    /\ status = "none"
    /\ report = <<>>
    /\ history = <<>>
    /\ options = <<>>
    /\ warnings = <<>>

\* PreMigrationAnalyzer(config).analyze() on the IR a parser returned
AnalyzeParsed == status = "returned" /\ Analyze

ParserNext ==
    \/ ParseCiscoAsa
    \/ ParseFortinet
    \/ ParsePaloAlto
    \/ ParseCheckpoint
    \/ ParseConfig
    \/ AnalyzeParsed

SpecParser == ParserInit /\ [][ParserNext]_vars

\* ---- properties of the parsers

\* the sequence-ids of a rule list, in the order of the list
SequenceIds(rules) == [k \in DOMAIN rules |-> rules[k].sequence_id]

\* C3 as stated: the FirewallConfig a parser's parse returns has a rule list
\* that is non-decreasing by sequence-id.
C3_ParsedRulesMonotone ==
    (pc = "parsed" /\ status = "returned")
        => NonDecreasing(SequenceIds(config.rules))

\* C7 as stated: parse returns a FirewallConfig without raising, whatever
\* the input text.
C7_ParseNeverRaises ==
    pc \in {"parsed", "sorted"} => status # "raised"

\* no two members of a set of entities have the same name
UniqueNames(entities) == \A x, y \in entities : x.name = y.name => x = y

\* C14 as stated: in the IR a parser returns, no two addresses, no two
\* services, no two address-groups, no two service-groups and no two
\* interfaces have the same name.
C14_NamesUniquePerType ==
    (pc \in {"parsed", "sorted"} /\ status = "returned") =>
        /\ UniqueNames(config.addresses)
        /\ UniqueNames(config.services)
        /\ UniqueNames(config.address_groups)
        /\ UniqueNames(config.service_groups)
        /\ UniqueNames(config.interfaces)

\* C15 as stated: parsing the two access-list lines permit ip any any and
\* permit tcp host 1.2.3.4 host 5.6.7.8 eq 80 of one access-list and analysing
\* the IR gives a report with exactly one overlapping rule: the second rule,
\* shadowed by the first.
C15_SecondAclLineShadowed ==
    (/\ pc = "analyzed" /\ status = "returned"
     /\ input.vendor = "cisco_asa"
     /\ input.lines = <<AclPermitIpAnyAny, AclPermitTcpHosts>>)
    => /\ Len(report.overlapping_rules) = 1
       /\ report.overlapping_rules[1].rule_name = config.rules[2].name
       /\ report.overlapping_rules[1].shadowed_by = config.rules[1].name

\* C16 as stated: parsing object network INSIDE_NET with subnet 10.0.0.0
\* 255.255.255.0 and nat (inside,outside) dynamic interface gives the network
\* address INSIDE_NET = 10.0.0.0/24 and exactly one NAT rule, with
\* original-source {INSIDE_NET}, translated-source dynamic-ip-and-port,
\* source-interface {inside} and destination-interface {outside}.
C16_ObjectNatGivesNatRule ==
    (/\ pc \in {"parsed", "sorted"} /\ status = "returned"
     /\ input.vendor = "cisco_asa"
     /\ input.lines = ObjectNatBlock)
    => /\ config.addresses = {MkAddress("INSIDE_NET", "network", "10.0.0.0", "24")}
       /\ Len(config.nat_rules) = 1
       /\ config.nat_rules[1].original_source = {"INSIDE_NET"}
       /\ config.nat_rules[1].translated_source = "dynamic-ip-and-port"
       /\ config.nat_rules[1].source_interface = {"inside"}
       /\ config.nat_rules[1].destination_interface = {"outside"}

\* a manual static NAT line (nat (src,dst) source static ...) without the
\* unidirectional keyword
StaticWithoutUnidirectional(line) ==
    /\ Len(line) >= 4 /\ line[1] = "nat"
    /\ \E p \in 3..(Len(line) - 1) : line[p] = "source" /\ line[p + 1] = "static"
    /\ \A k \in DOMAIN line : line[k] # "unidirectional"

\* C18 as stated: every manual static NAT line without unidirectional, with
\* or without a destination static clause, gives exactly two NAT rules: a
\* text of such lines only gives twice as many NAT rules as it has lines.
C18_StaticNatGivesTwoRules ==
    (/\ pc \in {"parsed", "sorted"} /\ status = "returned"
     /\ input.vendor = "cisco_asa"
     /\ input.lines # <<>>
     /\ \A k \in DOMAIN input.lines : StaticWithoutUnidirectional(input.lines[k]))
    => Len(config.nat_rules) = 2 * Len(input.lines)

\* ---- the split of a Fortinet service with both port ranges

\* the nesting depth after the first i lines of a Fortinet text: a config
\* line opens a block, an end line closes one
RECURSIVE DepthAfter(_, _)
DepthAfter(lines, i) ==
    IF i = 0 THEN 0
    ELSE IF IsConfig(lines[i]) THEN DepthAfter(lines, i - 1) + 1
    ELSE IF lines[i] = <<"end">> /\ DepthAfter(lines, i - 1) > 0
    THEN DepthAfter(lines, i - 1) - 1
    ELSE DepthAfter(lines, i - 1)

\* no config block of the text stands inside another one
NoNestedBlocks(lines) ==
    \A i \in DOMAIN lines : IsConfig(lines[i]) => DepthAfter(lines, i - 1) = 0

\* the names of the entries of a text that set tcp-portrange and then
\* udp-portrange
MixedNames(lines) ==
    {lines[i][2] : i \in {j \in 1..(Len(lines) - 2) :
        /\ lines[j][1] = "edit" /\ Len(lines[j]) = 2
        /\ Len(lines[j + 1]) >= 3 /\ lines[j + 1][2] = "tcp-portrange"
        /\ Len(lines[j + 2]) >= 3 /\ lines[j + 2][2] = "udp-portrange"}}

\* the lines of a text that are "set <key> ..." with the name among the values
ReferenceLines(lines, key, name) ==
    {i \in DOMAIN lines :
        /\ Len(lines[i]) >= 3 /\ lines[i][1] = "set" /\ lines[i][2] = key
        /\ name \in Range(SubSeq(lines[i], 3, Len(lines[i])))}

\* the returned IR holds the service name split under the base name: one tcp
\* service TCP-base, one udp service UDP-base, no service of the original
\* name, one group TCP-UDP_base of exactly the two, and the group in the
\* place of every reference to the original name (the rule of a referencing
\* entry is looked for in a text without nested blocks, where every policy
\* entry is a rule of the IR)
SplitAs(name, base) ==
    /\ \E t \in config.services : \E u \in config.services :
          /\ t.name = "TCP-" \o base /\ t.protocol = "tcp"
          /\ u.name = "UDP-" \o base /\ u.protocol = "udp"
          /\ {s \in config.services :
                s.name \in {name, base, "TCP-" \o base, "UDP-" \o base}} = {t, u}
    /\ {g \in config.service_groups : g.name = "TCP-UDP_" \o base}
          = {MkServiceGroup("TCP-UDP_" \o base, {"TCP-" \o base, "UDP-" \o base})}
    /\ \A k \in DOMAIN config.rules : name \notin config.rules[k].service
    /\ \A k \in DOMAIN config.nat_rules : name \notin config.nat_rules[k].original_service
    /\ \A g \in config.service_groups : name \notin g.members
    /\ (ReferenceLines(input.lines, "service", name) # {} /\ NoNestedBlocks(input.lines))
          => /\ \E k \in DOMAIN config.rules :
                   "TCP-UDP_" \o base \in config.rules[k].service
             /\ \A k \in DOMAIN config.nat_rules : \A j \in DOMAIN config.rules :
                   (/\ config.nat_rules[k].sequence_id = config.rules[j].sequence_id
                    /\ config.nat_rules[k].name = "NAT_" \o config.rules[j].name)
                   => config.nat_rules[k].original_service = config.rules[j].service
    /\ ReferenceLines(input.lines, "member", name) # {}
          => \E g \in config.service_groups : "TCP-UDP_" \o base \in g.members

C20_CsvReplacesExisting ==
    (status = "returned" /\ input.vendor = "checkpoint")
    => \A o \in input.objects : \A k \in DOMAIN input.hosts :
          input.hosts[k].name = o.name
          => \E a \in config.addresses :
                /\ {b \in config.addresses : b.name = o.name} = {a}
                /\ a.value1 = input.hosts[k].ip

\* the returned parse of the database host h1 = 10.0.0.5 with the CSV row
\* h1 = 10.0.0.6: the IR holds h1 once, with 10.0.0.6
C20_Witness ==
    /\ status = "returned" /\ input.vendor = "checkpoint"
    /\ input.objects = {MkAddress("h1", "host", "10.0.0.5", None)}
    /\ input.hosts = <<HostRow("h1", "10.0.0.6")>>
    /\ config.addresses = {MkAddress("h1", "host", "10.0.0.6", "32")}

\* ---- properties of the Palo Alto rules

\* the lines of a text that render the rule of a sequence-id under a keyword
RuleLinesOf(text, id, kw) ==
    {i \in DOMAIN text : text[i].sec = "rule" /\ text[i].id = id /\ text[i].kw = kw}

\* the names a line lists after the rule name
Listed(line) == Range(Tail(line.names))

\* C21: for every fqdn address whose value starts with "*", the Palo Alto
\* text has no address line for it and exactly one custom URL category for
\* it, and every rule whose destinations hold it leaves it out of the
\* destination line and lists its (sanitized) name in the category line.
C21_WildcardBecomesUrlCategory ==
    \A k \in DOMAIN history :
        (history[k].generator = "paloalto" /\ ~history[k].raised)
        => \A a \in {x \in history[k].before.addresses :
                        x.type = "fqdn" /\ StartsWithStar(x.value1)} :
              /\ \A i \in DOMAIN history[k].text :
                    history[k].text[i].sec = "address"
                    => PaloAltoSanitizeName(a.name) \notin Range(history[k].text[i].names)
              /\ Cardinality({i \in DOMAIN history[k].text :
                    /\ history[k].text[i].sec = "url-category"
                    /\ history[k].text[i].kw = "list"
                    /\ history[k].text[i].names = <<PaloAltoSanitizeName(a.name)>>}) = 1
              /\ \A j \in DOMAIN history[k].before.rules :
                    a.name \in history[k].before.rules[j].destination
                    => /\ RuleLinesOf(history[k].text, j, "category") # {}
                       /\ \A i \in RuleLinesOf(history[k].text, j, "category") :
                             PaloAltoSanitizeName(a.name) \in Listed(history[k].text[i])
                       /\ \A i \in RuleLinesOf(history[k].text, j, "destination") :
                             PaloAltoSanitizeName(a.name) \notin Listed(history[k].text[i])

\* a Palo Alto text for a rule to the wildcard fqdn and the web server: the
\* destination line keeps the web server, the category line lists the fqdn
C21_Witness ==
    \E k \in DOMAIN history :
        /\ history[k].generator = "paloalto" /\ ~history[k].raised
        /\ \E j \in DOMAIN history[k].before.rules :
              /\ history[k].before.rules[j].destination = {"w1", "WebSrv"}
              /\ \E i \in RuleLinesOf(history[k].text, j, "category") :
                    Listed(history[k].text[i]) = {"w1"}
              /\ \E i \in RuleLinesOf(history[k].text, j, "destination") :
                    Listed(history[k].text[i]) = {"WebSrv"}

\* C22 as stated: whenever a rule's destination names the translated
\* destination of a NAT rule, the destination line of the rule lists that NAT
\* rule's original destination and not the internal address.
C22_DestinationIsExternalAddress ==
    \A k \in DOMAIN history :
        (history[k].generator = "paloalto" /\ ~history[k].raised)
        => \A j \in DOMAIN history[k].before.rules :
           \A m \in DOMAIN history[k].before.nat_rules :
              history[k].before.nat_rules[m].translated_destination
                  \in history[k].before.rules[j].destination
              => \A i \in RuleLinesOf(history[k].text, j, "destination") :
                    /\ history[k].before.nat_rules[m].original_destination
                          \subseteq Listed(history[k].text[i])
                    /\ history[k].before.nat_rules[m].translated_destination
                          \notin Listed(history[k].text[i])

\* the services of a rule whose name holds ICMP, PING or TRACEROUTE
IcmpLike(r) == {x \in r.service : IcmpApps(x) # {}}

\* C27 as stated: a rule is written as two rules (_svc with its services and
\* application any, _app with service application-default) exactly when its
\* services hold both ICMP-like and other entries; with ICMP-like services
\* only it is written once with application-default, with other services only
\* once with application any.
C27_SplitExactlyWhenMixed ==
    \A k \in DOMAIN history :
        (history[k].generator = "paloalto" /\ ~history[k].raised)
        => \A j \in DOMAIN history[k].before.rules :
              \E r \in {history[k].before.rules[j]} :
              \E apps \in {RuleLinesOf(history[k].text, j, "application")} :
                 /\ (Cardinality(apps) = 2)
                       <=> (IcmpLike(r) # {} /\ r.service \ IcmpLike(r) # {})
                 /\ Cardinality(apps) = 2
                       => {history[k].text[i].names[1] : i \in apps}
                             = {PaloAltoRuleName(r, "_svc"), PaloAltoRuleName(r, "_app")}
                 /\ (IcmpLike(r) # {} /\ r.service \ IcmpLike(r) = {})
                       => /\ Cardinality(apps) = 1
                          /\ \A i \in RuleLinesOf(history[k].text, j, "service") :
                                Listed(history[k].text[i]) = {"application-default"}
                 /\ (IcmpLike(r) = {} /\ r.service # {})
                       => /\ Cardinality(apps) = 1
                          /\ \A i \in apps : Listed(history[k].text[i]) = {"any"}

\* C30 as stated: the rule names written for two rules of the IR that have
\* different names are different.
C30_RuleNamesPairwiseDifferent ==
    \A k \in DOMAIN history :
        (history[k].generator = "paloalto" /\ ~history[k].raised)
        => \A i, j \in DOMAIN history[k].before.rules :
              (i # j /\ history[k].before.rules[i].name # history[k].before.rules[j].name)
              => {history[k].text[n].names[1] :
                    n \in RuleLinesOf(history[k].text, i, "action")}
                 \cap {history[k].text[n].names[1] :
                    n \in RuleLinesOf(history[k].text, j, "action")} = {}

\* ---- properties of the Fortinet blocks and of the skipped lines

\* the lines directly inside a "config firewall policy" block of the text:
\* at depth one, below a policy header that stands at depth zero
InPolicyBlock(lines) ==
    {i \in DOMAIN lines :
        /\ DepthAfter(lines, i) = 1
        /\ ~IsConfig(lines[i])
        /\ \E h \in 1..(i - 1) :
              /\ lines[h] = <<"config", "firewall", "policy">>
              /\ DepthAfter(lines, h - 1) = 0
              /\ \A m \in h..i : DepthAfter(lines, m) >= 1}

\* the top-level edit lines of the policy blocks of a text
TopLevelEdits(lines) == {i \in InPolicyBlock(lines) : IsEdit(lines[i])}

\* a returned Fortinet parse of a text whose blocks are all closed
ReturnedFortinet ==
    /\ pc = "parsed" /\ status = "returned" /\ input.vendor = "fortinet"
    /\ DepthAfter(input.lines, Len(input.lines)) = 0

\* C23 as stated: the parse of a policy block whose entries may hold nested
\* config ... end sub-blocks returns exactly one Rule per top-level edit
\* entry of the block.
C23_OneRulePerTopLevelEdit ==
    ReturnedFortinet
    => Len(config.rules) = Cardinality(TopLevelEdits(input.lines))

\* C24 as stated: every policy entry with "set nat enable" yields a Rule and
\* a NatRule, with or without a poolname; so the IR holds at least as many
\* rules and as many NAT rules as the policy blocks have such entries.
C24_NatEnableYieldsRuleAndNatRule ==
    ReturnedFortinet
    => \E n \in {Cardinality({i \in InPolicyBlock(input.lines) :
                                input.lines[i] = <<"set", "nat", "enable">>})} :
          /\ Len(config.rules) >= n
          /\ Len(config.nat_rules) >= n

\* the headers of the config blocks FortinetParser.parse has a parser for
ParsedBlocks ==
    {<<"config", "firewall", "policy">>, <<"config", "firewall", "service", "custom">>,
     <<"config", "firewall", "service", "group">>, <<"config", "system", "interface">>}

\* the first words of the lines CiscoAsaParser.parse has a parser for
ParsedLines == {"object", "access-list", "nat", "!"}

\* C25 as stated: every line or config block a parser turns into no IR
\* entity is recorded as a warning that carries its text: an ASA line no
\* branch of parse takes has a warning with that line, and a Fortinet config
\* block at depth zero that parse has no parser for has a warning with its
\* header and with the lines of the whole block as details.
C25_NothingDroppedSilently ==
    (pc = "parsed" /\ status = "returned")
    => /\ input.vendor = "cisco_asa"
          => \A i \in DOMAIN input.lines :
                (input.lines[i] # <<>> /\ Lower(input.lines[i][1]) \notin ParsedLines)
                => \E k \in DOMAIN warnings :
                      warnings[k].original_line = input.lines[i]
       /\ input.vendor = "fortinet"
          => \A i \in DOMAIN input.lines :
                (/\ IsConfig(input.lines[i])
                 /\ DepthAfter(input.lines, i - 1) = 0
                 /\ input.lines[i] \notin ParsedBlocks)
                => \E k \in DOMAIN warnings :
                      /\ warnings[k].original_line = input.lines[i]
                      /\ "details" \in DOMAIN warnings[k]
                      /\ warnings[k].details =
                            SubSeq(input.lines, i + 1, SkipBlock(input.lines, i + 1, 1).i - 2)

\* ---- properties of the Fortinet VIPs

\* the names of the address objects a text defines
AddressNames(text) ==
    UNION {text[i].edits : i \in {j \in DOMAIN text : text[j].sec = "address"
                                     /\ text[j].kw = "config firewall address"}}

\* the lines of a text that open a VIP
VipEdits(text) == {i \in DOMAIN text : text[i].kw = "edit vip"}

\* C26 as stated: every VIP of a Fortinet text is named after its NAT rule
\* (with or without _VIP), else DNAT_<extip>, else VIP_<sequence-id>, and no
\* VIP has the name of an address object of the text or of the IR.
C26_VipNamesAvoidAddressNames ==
    \A k \in DOMAIN history :
        (history[k].generator = "fortinet" /\ ~history[k].raised)
        => \A i \in VipEdits(history[k].text) :
              /\ \E m \in DOMAIN history[k].after.nat_rules :
                 \E r \in {history[k].after.nat_rules[m]} :
                    /\ r.sequence_id = history[k].text[i].id
                    /\ (r.name # None /\ SanitizeName(r.name) # "")
                          => history[k].text[i].names[1]
                                \in {SanitizeName(r.name), SanitizeName(r.name) \o "_VIP"}
                    /\ (r.name = None \/ SanitizeName(r.name) = "")
                          => \/ \E ip \in {"203.0.113.1", "203.0.113.2", "203.0.113.9"} :
                                   history[k].text[i].names[1] = "DNAT_" \o ip
                             \/ history[k].text[i].names[1] = "VIP_" \o ToStr(r.sequence_id)
              /\ history[k].text[i].names[1] \notin AddressNames(history[k].text)
              /\ history[k].text[i].names[1]
                    \notin {a.name : a \in history[k].after.addresses}

\* ---- properties of the tails of the access-list lines

\* C28 as stated: for a text of access-list lines that end in log, inactive,
\* time-range NAME or (hitcnt=N), the rule of every line has the log flag,
\* the enabled flag, the time-range and the hit-count of its tail, and the
\* source, destination and service of the line without the tail.
C28_TailsExtracted ==
    (/\ pc = "parsed" /\ status = "returned" /\ input.vendor = "cisco_asa"
     /\ \A i \in DOMAIN input.lines :
           \E tail \in AclTails : input.lines[i] = AclPermitTcpHosts \o tail)
    => /\ Len(config.rules) = Len(input.lines)
       /\ \A i \in DOMAIN input.lines :
          \E tail \in {SubSeq(input.lines[i], Len(AclPermitTcpHosts) + 1,
                              Len(input.lines[i]))} :
          \E plain \in {CiscoAsaParse(<<AclPermitTcpHosts>>).config.rules[1]} :
             /\ config.rules[i].source = plain.source
             /\ config.rules[i].destination = plain.destination
             /\ config.rules[i].service = plain.service
             /\ config.rules[i].log = ("log" \in Range(tail))
             /\ config.rules[i].enabled = ("inactive" \notin Range(tail))
             /\ config.rules[i].time_range =
                   (IF "time-range" \in Range(tail) THEN "TR" ELSE None)
             /\ config.rules[i].hit_count =
                   (IF "(hitcnt=5)" \in Range(tail) THEN 5 ELSE 0)

\* ---- properties of the service canonicalization

\* the custom services whose normalized port is the port of no default of
\* their protocol
UnmatchedServices(cfg) ==
    {s \in cfg.services :
        /\ s.name \notin DefaultNames
        /\ \A i \in DOMAIN FORTINET_DEFAULTS :
              FORTINET_DEFAULTS[i].protocol = Lower(s.protocol)
              => FORTINET_DEFAULTS[i].port # NormalizePort(s.port)}

\* C29 as stated: a custom service of any protocol whose normalized port is
\* the port of no default of its protocol is still defined after generate()
\* and every rule and service group that named it still names it.
C29_UnmatchedServicesStay ==
    \A k \in DOMAIN history :
        (history[k].generator = "fortinet" /\ ~history[k].raised)
        => \A s \in UnmatchedServices(history[k].before) :
              /\ s \in history[k].after.services
              /\ \A j \in DOMAIN history[k].before.rules :
                    s.name \in history[k].before.rules[j].service
                    => history[k].after.rules[j].service
                          = history[k].before.rules[j].service
              /\ \A g \in history[k].before.service_groups :
                    s.name \in g.members => g \in history[k].after.service_groups
====
